---- MODULE Spec2Model ----
(***************************************************************************)
(* Model of the legacy Flightradar24 scraper                               *)
(* (src/legacy/flightradar_scraper_legacy/scraper.py): the progress file,  *)
(* the listing and history parsers, the two database writers and the main  *)
(* loop of the __main__ block.                                             *)
(*                                                                         *)
(* Encoding.  A Python optional is a sequence: <<>> is None and <<v>> is   *)
(* the value v.  A string the code only tests for emptiness or equality is *)
(* a TLA+ string; "" is the empty string.  A date string is the sequence   *)
(* of its whitespace-separated tokens.  A timestamp is the number of       *)
(* minutes in a calendar with 12 months of 31 days, which orders instants  *)
(* as the real calendar does.  The local progress file is assumed to be    *)
(* readable and writable (its I/O errors are not modelled).                *)
(*                                                                         *)
(* Specifications.  Spec: runs of the __main__ block, the login as one     *)
(* step.  SpecLogin: one run with the login in its steps, under every      *)
(* configuration.  SpecParse, SpecListing, SpecEntity, SpecDetails,        *)
(* SpecProgress: the history parser, the listing parser, the upsert of the *)
(* aircraft table, its detail update and the progress file functions on    *)
(* their own.  SpecRetry: reruns of the __main__ block under weak          *)
(* fairness, one history page.  SpecBatch: save_flight_history_to_db on a  *)
(* batch of several pages of rows.  SpecCutoff: runs of the __main__ block *)
(* over history pages that gain an earlier row between two fetches.        *)
(***************************************************************************)
EXTENDS Integers, Sequences, FiniteSets, TLC

VARIABLES
    progress_file,          \* scraper_progress.txt: <<>> absent, <<line>>
    pc,                     \* position of the __main__ block
    runs,                   \* invocations started so far
    config,                 \* [types, username, password]: the list of
                            \* line 769 and whether the two variables of
                            \* lines 24-25 are set
    logged_in,
    start_after,            \* (start_after_type, start_after_reg) as read
    found_start_type,
    found_start_reg,
    connection,             \* "None", "open", "closed"
    type_index,             \* position in AIRCRAFT_TYPES_TO_SCRAPE (1-based)
    extracted_aircraft,     \* result of extract_registrations for the type
    aircraft_tuples_found,
    i,                      \* position in aircraft_tuples_found (1-based)
    latest_ts,
    history_html,           \* <<>> or <<page>>
    flight_records,
    processed,              \* return value of save_flight_history_to_db
    aircraft,               \* table aircraft: registration -> row
    movements,              \* table movements: set of rows
    hist                    \* history record read by the properties only

vars == <<progress_file, pc, runs, config, logged_in, start_after, found_start_type,
          found_start_reg, connection, type_index,
          extracted_aircraft, aircraft_tuples_found, i, latest_ts,
          history_html, flight_records, processed, aircraft, movements, hist>>

None == <<>>
Some(v) == <<v>>

(***************************************************************************)
(* Bounds of the model.                                                    *)
(***************************************************************************)
MaxRuns == 2
MaxRows == 2
MaxBatch == 2

SeqsUpTo(S, n) == UNION { [1..k -> S] : k \in 0..n }

(***************************************************************************)
(* Text tables: what strptime and int() make of the strings of the model.  *)
(* A string outside a table raises ValueError in the code.                 *)
(***************************************************************************)
DayTable == ("04" :> 4) @@ ("05" :> 5) @@ ("06" :> 6)
MonthTable == ("Mar" :> 3) @@ ("Apr" :> 4)
YearTable == ("2024" :> 2024) @@ ("2025" :> 2025)
TimeTable == ("08:00" :> 480) @@ ("08:15" :> 495) @@ ("09:30" :> 570)
             @@ ("15:00" :> 900) @@ ("15:05" :> 905)
FlightTimeTable == ("7:00" :> 420) @@ ("0:45" :> 45)
\* str.strip() and str.replace(')', '').strip() on the airport fragments
StripTable == ("New York " :> "New York") @@ ("London " :> "London")
              @@ ("JFK" :> "JFK") @@ ("LHR" :> "LHR") @@ ("" :> "")
CloseParenTable == ("JFK)" :> "JFK") @@ ("LHR)" :> "LHR") @@ ("JFK" :> "JFK")
                   @@ ("LHR" :> "LHR") @@ ("" :> "")

\* the placeholder character U+2014 the site shows for a missing time
EmDash == "--"

\* minutes since the origin of a calendar of 12 months of 31 days
Timestamp(year, month, day, minutes) ==
    (((year * 12) + (month - 1)) * 31 + (day - 1)) * 1440 + minutes

(***************************************************************************)
(* parse_fr24_datetime(date_str, time_str, current_year)                   *)
(* date_str is the sequence of the tokens of the cell's text.              *)
(***************************************************************************)
parse_fr24_datetime(date_str, time_str, current_year) ==
    IF date_str = <<>> \/ time_str = "" \/ time_str = EmDash
    THEN None
    ELSE LET year_known == Len(date_str) = 2
             ntok == IF year_known THEN 3 ELSE Len(date_str)
             ok == /\ ntok = 3
                   /\ date_str[1] \in DOMAIN DayTable
                   /\ date_str[2] \in DOMAIN MonthTable
                   /\ (year_known \/ date_str[3] \in DOMAIN YearTable)
                   /\ time_str \in DOMAIN TimeTable
         IN IF ok
            THEN Some(Timestamp(IF year_known THEN current_year
                                              ELSE YearTable[date_str[3]],
                                MonthTable[date_str[2]],
                                DayTable[date_str[1]],
                                TimeTable[time_str]))
            ELSE None      \* ValueError

(***************************************************************************)
(* parse_flight_time(time_str)                                             *)
(***************************************************************************)
\* the texts "H:MM" whose hours are beyond what timedelta takes: the call
\* of line 376 raises OverflowError, which "except ValueError" lets through
HugeFlightTimes == { "99999999999:00" }
flight_time_overflows(time_str) == time_str \in HugeFlightTimes

parse_flight_time(time_str) ==
    IF time_str = "" \/ time_str = EmDash
    THEN None
    ELSE IF time_str \in DOMAIN FlightTimeTable
         THEN Some(FlightTimeTable[time_str])
         ELSE None         \* ValueError

\* the code taken from the first piece of the cell, split('(')[0]
AirportCode_FirstPiece(raw) == StripTable[raw[1]]

\* An airport cell is the sequence of the pieces of its text between '('.
AirportCode(raw) ==
    IF Len(raw) >= 2 THEN CloseParenTable[raw[Len(raw)]] ELSE raw[1]
AirportName(raw) ==
    IF Len(raw) >= 2 THEN StripTable[raw[1]] ELSE ""

\* The status cell is the sequence of its tokens; the text left after
\* removing "Landed" and stripping.
LandedTimeStr(status) ==
    IF Len(status) = 1 THEN ""
    ELSE IF Len(status) = 2 THEN status[2]
    ELSE "?"

expected_min_cells == 12

(***************************************************************************)
(* The record extract_flight_history builds for one row that passed the    *)
(* timestamp check and has a departure time.                               *)
(***************************************************************************)
FlightData(row, registration, atd_dt, current_year) ==
    [ registration |-> registration,
      flight_number |-> row.flight,
      origin_code |-> AirportCode(row.from),
      origin_name |-> AirportName(row.from),
      destination_code |-> AirportCode(row.to),
      destination_name |-> AirportName(row.to),
      scheduled_departure |-> parse_fr24_datetime(row.date, row.std, current_year),
      actual_departure |-> atd_dt,
      scheduled_arrival |-> parse_fr24_datetime(row.date, row.sta, current_year),
      actual_arrival |->
          IF Len(row.status) >= 1 /\ row.status[1] = "Landed"
          THEN parse_fr24_datetime(row.date, LandedTimeStr(row.status), current_year)
          ELSE None,
      flight_time |-> parse_flight_time(row.flight_time) ]

\* the comparison written with < instead of <=
NotNewer_Strict(atd_dt, latest_known_departure_ts) ==
    /\ latest_known_departure_ts # None
    /\ atd_dt # None
    /\ atd_dt[1] < latest_known_departure_ts[1]

\* the test of line 421: the row is not newer than the latest known departure
NotNewer(atd_dt, latest_known_departure_ts) ==
    /\ latest_known_departure_ts # None
    /\ atd_dt # None
    /\ atd_dt[1] <= latest_known_departure_ts[1]

\* the loop body without the test of line 447
ParseRow_KeepsWithoutDeparture(row, registration, latest_known_departure_ts, current_year) ==
    IF row.ncells < expected_min_cells THEN <<>>
    ELSE LET atd_dt == parse_fr24_datetime(row.date, row.atd, current_year)
         IN IF NotNewer(atd_dt, latest_known_departure_ts) THEN <<>>
            ELSE IF flight_time_overflows(row.flight_time) THEN <<>>
            ELSE <<FlightData(row, registration, atd_dt, current_year)>>

\* the loop body of extract_flight_history for one row: the records it adds
ParseRow(row, registration, latest_known_departure_ts, current_year) ==
    IF row.ncells < expected_min_cells THEN <<>>
    ELSE LET atd_dt == parse_fr24_datetime(row.date, row.atd, current_year)
         IN IF NotNewer(atd_dt, latest_known_departure_ts) THEN <<>>
            \* line 444 raises, the "except Exception" of line 465 drops the row
            ELSE IF flight_time_overflows(row.flight_time) THEN <<>>
            ELSE IF atd_dt = None THEN <<>>
            ELSE <<FlightData(row, registration, atd_dt, current_year)>>

RECURSIVE ParseRows(_, _, _, _)
ParseRows(rows, registration, latest_known_departure_ts, current_year) ==
    IF rows = <<>> THEN <<>>
    ELSE ParseRow(Head(rows), registration, latest_known_departure_ts, current_year)
         \o ParseRows(Tail(rows), registration, latest_known_departure_ts, current_year)

(***************************************************************************)
(* extract_flight_history(html_content, registration, latest_ts)           *)
(* A page is [nodata, table, rows]: whether it carries the no-data text,   *)
(* whether it has the table tbl-datatable, and that table's rows.          *)
(***************************************************************************)
extract_flight_history(html_content, registration, latest_known_departure_ts, current_year) ==
    IF html_content = None THEN <<>>
    ELSE IF ~html_content[1].table THEN <<>>
    ELSE ParseRows(html_content[1].rows, registration,
                   latest_known_departure_ts, current_year)

(***************************************************************************)
(* extract_registrations(html_content)                                     *)
(* A listing page is <<>> (None or empty) or <<[table, rows]>>; a row is   *)
(* [th, ncells, type_text, reg_link, airline_link, airline_text]: whether  *)
(* it holds a th, the number of its td cells, the text of cell 1, the text *)
(* of the anchor of cell 2 (None without anchor), the text of the anchor   *)
(* of cell 3 and the text of cell 3.                                       *)
(***************************************************************************)
\* str.strip().upper() and str.strip() on the texts of the model
UpperTable == ("A332" :> "A332") @@ ("a332" :> "A332") @@ ("A333" :> "A333")
              @@ ("B744" :> "B744") @@ ("-" :> "-") @@ ("" :> "") @@ (" " :> "")
              @@ ("N1" :> "N1") @@ ("n1" :> "N1") @@ ("N2" :> "N2") @@ ("N3" :> "N3")
TextTable == ("Acme" :> "Acme") @@ ("Beta" :> "Beta") @@ (" Acme " :> "Acme")
             @@ ("-" :> "-") @@ ("" :> "") @@ (" " :> "")

\* a dict that keeps the value a key was first given
DictSet_FirstWins(items, key, value) ==
    IF \E k \in 1..Len(items) : items[k][1] = key
    THEN items
    ELSE Append(items, <<key, value[1], value[2]>>)

\* aircraft_data[registration] = (specific_type, airline_name) on a dict
\* kept as the sequence of its items in insertion order
DictSet(items, key, value) ==
    IF \E k \in 1..Len(items) : items[k][1] = key
    THEN [k \in 1..Len(items) |->
             IF items[k][1] = key THEN <<key, value[1], value[2]>> ELSE items[k]]
    ELSE Append(items, <<key, value[1], value[2]>>)

\* the loop body of extract_registrations on one row, from the dict and the
\* skip counter before it to those after it
ListingRow(acc, row) ==
    IF row.ncells < 4
    THEN [acc EXCEPT !.skipped_rows = @ + 1]
    ELSE LET specific_type == UpperTable[row.type_text]
             registration == IF row.reg_link # None
                             THEN UpperTable[row.reg_link[1]] ELSE ""
             raw_name == IF row.airline_link # None
                         THEN TextTable[row.airline_link[1]]
                         ELSE TextTable[row.airline_text]
             airline_name == IF raw_name = "" \/ raw_name = "-"
                             THEN None ELSE Some(raw_name)
         IN IF specific_type = "" \/ specific_type = "-"
            THEN [acc EXCEPT !.skipped_rows = @ + 1]
            ELSE IF registration = ""
            THEN [acc EXCEPT !.skipped_rows = @ + 1]
            ELSE [acc EXCEPT !.aircraft_data =
                      DictSet(@, registration, <<specific_type, airline_name>>)]

RECURSIVE ListingRows(_, _)
ListingRows(acc, rows) ==
    IF rows = <<>> THEN acc
    ELSE ListingRows(ListingRow(acc, Head(rows)), Tail(rows))

\* the parse with its skip counter; the code returns the list and logs the
\* counter
ExtractListing(html_content) ==
    LET empty == [aircraft_data |-> <<>>, skipped_rows |-> 0]
    IN IF html_content = None THEN empty
       ELSE IF ~html_content[1].table THEN empty
       ELSE LET rows == html_content[1].rows
                start_index == IF Len(rows) > 1 /\ rows[1].th THEN 1 ELSE 0
            IN ListingRows(empty, SubSeq(rows, start_index + 1, Len(rows)))

extract_registrations(html_content) == ExtractListing(html_content).aircraft_data

(***************************************************************************)
(* Table aircraft and save_registrations_to_db.  The table is a function   *)
(* from the stored registrations to their rows.                            *)
(***************************************************************************)
NewAircraftRow(type, operator) ==
    [ type |-> type, operator |-> operator, aircraft_details |-> None,
      operator_iata_code |-> None, operator_icao_code |-> None,
      last_scraped |-> None ]

\* operator = EXCLUDED.operator whenever one is given
UpsertAircraft_OverwriteOperator(table, t) ==
    IF t[1] \notin DOMAIN table
    THEN (t[1] :> NewAircraftRow(t[2], t[3])) @@ table
    ELSE LET old == table[t[1]]
         IN [table EXCEPT ![t[1]] =
                [old EXCEPT !.type = t[2],
                            !.operator = IF t[3] # None THEN t[3] ELSE old.operator]]

\* the WHERE clause without its test of the type
UpsertAircraft_NoTypeTest(table, t) ==
    IF t[1] \notin DOMAIN table
    THEN (t[1] :> NewAircraftRow(t[2], t[3])) @@ table
    ELSE LET old == table[t[1]]
         IN IF old.operator = None /\ t[3] # None
            THEN [table EXCEPT ![t[1]] = [old EXCEPT !.type = t[2], !.operator = t[3]]]
            ELSE table

\* ON CONFLICT (registration) DO NOTHING in place of the update
UpsertAircraft_DoNothing(table, t) ==
    IF t[1] \notin DOMAIN table
    THEN (t[1] :> NewAircraftRow(t[2], t[3])) @@ table
    ELSE table

\* INSERT ... ON CONFLICT (registration) DO UPDATE SET ... WHERE ... for
\* one tuple (registration, specific_type, airline)
UpsertAircraft(table, t) ==
    IF t[1] \notin DOMAIN table
    THEN (t[1] :> NewAircraftRow(t[2], t[3])) @@ table
    ELSE LET old == table[t[1]]
             fill == old.operator = None /\ t[3] # None
         IN IF old.type # t[2] \/ fill
            THEN [table EXCEPT ![t[1]] =
                     [old EXCEPT !.type = t[2],
                                 !.operator = IF fill THEN t[3] ELSE old.operator]]
            ELSE table

RECURSIVE UpsertAll(_, _)
UpsertAll(table, tuples) ==
    IF tuples = <<>> THEN table
    ELSE UpsertAll(UpsertAircraft(table, Head(tuples)), Tail(tuples))

\* data_tuples of line 98
WithSpecificType(aircraft_list) == SelectSeq(aircraft_list, LAMBDA t : t[2] # "")

\* one statement may not update the same row twice (PostgreSQL raises)
SameRowTwice(tuples) ==
    \E a, b \in 1..Len(tuples) : a # b /\ tuples[a][1] = tuples[b][1]

\* save_registrations_to_db(conn, aircraft_list): the table after the call
\* and the value returned; db_ok says whether the statement and the commit
\* go through
save_registrations_to_db(table, conn, aircraft_list, db_ok) ==
    LET data_tuples == WithSpecificType(aircraft_list)
        unchanged == [table |-> table, ret |-> 0]
    IN IF aircraft_list = <<>> THEN unchanged
       ELSE IF conn # "open" THEN unchanged
       ELSE IF data_tuples = <<>> THEN unchanged
       ELSE IF ~db_ok \/ SameRowTwice(data_tuples) THEN unchanged   \* rollback
       ELSE [table |-> UpsertAll(table, data_tuples), ret |-> Len(data_tuples)]

(***************************************************************************)
(* update_aircraft_details(conn, registration, details, iata, icao): the   *)
(* table aircraft after the call.  An argument is None, Some("") or        *)
(* Some(text); now is the value of NOW(); db_ok says whether the statement *)
(* and the commit go through.                                              *)
(***************************************************************************)
\* the truth value Python gives an argument
Truthy(arg) == arg # None /\ arg # Some("")

\* the statement with all three columns in its SET part
update_aircraft_details_AllColumns(table, conn, registration, details, iata, icao, now, db_ok) ==
    IF ~Truthy(registration) \/ (~Truthy(details) /\ ~Truthy(iata) /\ ~Truthy(icao))
    THEN table
    ELSE IF conn # "open" THEN table
    ELSE IF ~db_ok THEN table
    ELSE IF registration[1] \notin DOMAIN table THEN table
    ELSE [table EXCEPT ![registration[1]] =
             [@ EXCEPT !.aircraft_details = details,
                       !.operator_iata_code = iata,
                       !.operator_icao_code = icao,
                       !.last_scraped = Some(now)]]

update_aircraft_details(table, conn, registration, details, iata, icao, now, db_ok) ==
    IF ~Truthy(registration) \/ (~Truthy(details) /\ ~Truthy(iata) /\ ~Truthy(icao))
    THEN table
    ELSE IF conn # "open" THEN table
    ELSE IF ~db_ok THEN table                                 \* rollback
    ELSE IF registration[1] \notin DOMAIN table THEN table    \* no row matches
    ELSE [table EXCEPT ![registration[1]] =
             [@ EXCEPT !.aircraft_details = IF Truthy(details) THEN details ELSE @,
                       !.operator_iata_code = IF Truthy(iata) THEN iata ELSE @,
                       !.operator_icao_code = IF Truthy(icao) THEN icao ELSE @,
                       !.last_scraped = Some(now)]]

(***************************************************************************)
(* Table movements and save_flight_history_to_db.                          *)
(***************************************************************************)
\* the conflict target of the insert; a NULL component never conflicts
SameKey(a, b) ==
    /\ a.registration = b.registration
    /\ a.flight_number = b.flight_number
    /\ a.actual_departure = b.actual_departure
    /\ a.actual_departure # None

\* a plain INSERT, without the conflict clause
InsertMovement_NoConflictClause(table, rec) == table \cup {rec}

\* ON CONFLICT ... DO UPDATE: the row of the same key is replaced
InsertMovement_Overwrite(table, rec) ==
    { m \in table : ~SameKey(m, rec) } \cup {rec}

\* INSERT ... ON CONFLICT (registration, flight_number, actual_departure)
\* DO NOTHING for one record
InsertMovement(table, rec) ==
    IF \E m \in table : SameKey(m, rec) THEN table ELSE table \cup {rec}

RECURSIVE InsertAll(_, _)
InsertAll(table, records) ==
    IF records = <<>> THEN table
    ELSE InsertAll(InsertMovement(table, Head(records)), Tail(records))

\* save_flight_history_to_db(conn, flight_records): the table after the call
\* and the value returned
save_flight_history_to_db(table, conn, flight_records_, db_ok) ==
    LET unchanged == [table |-> table, ret |-> 0]
    IN IF flight_records_ = <<>> THEN unchanged
       ELSE IF conn = "None" THEN unchanged
       ELSE IF conn = "closed" \/ ~db_ok THEN unchanged   \* psycopg2.Error, rollback
       ELSE [table |-> InsertAll(table, flight_records_),
             ret |-> Len(flight_records_)]

\* the rows of one statement of execute_values (page_size=100 in the code)
page_size == 2

NumPages(records) == (Len(records) + page_size - 1) \div page_size

\* execute_values(cursor, sql, data_tuples, page_size) and conn.commit() in
\* the transaction of the connection: one INSERT statement per page, the
\* statement of page fail_at raises (fail_at = 0: nothing raises; fail_at =
\* NumPages + 1: the commit raises); k is the page to send next.  The
\* result is the table as the transaction sees it and whether it raised.
RECURSIVE execute_values(_, _, _, _)
execute_values(table, data_tuples, fail_at, k) ==
    IF k = fail_at THEN [table |-> table, raised |-> TRUE]
    ELSE IF data_tuples = <<>> THEN [table |-> table, raised |-> FALSE]
    ELSE LET n == IF Len(data_tuples) < page_size THEN Len(data_tuples)
                                                  ELSE page_size
         IN execute_values(InsertAll(table, SubSeq(data_tuples, 1, n)),
                           SubSeq(data_tuples, n + 1, Len(data_tuples)),
                           fail_at, k + 1)

\* a connection in autocommit mode: the pages sent before the failure stay
SaveInPages_Autocommit(table, conn, flight_records_, fail_at) ==
    LET unchanged == [table |-> table, ret |-> 0]
    IN IF flight_records_ = <<>> THEN unchanged
       ELSE IF conn # "open" THEN unchanged
       ELSE LET r == execute_values(table, flight_records_, fail_at, 1)
            IN IF r.raised THEN [table |-> r.table, ret |-> 0]
               ELSE [table |-> r.table, ret |-> Len(flight_records_)]

\* save_flight_history_to_db with its statement taken page by page: lines
\* 504-521, the rollback of 517 and 521 gives back the table of before
SaveInPages(table, conn, flight_records_, fail_at) ==
    LET unchanged == [table |-> table, ret |-> 0]
    IN IF flight_records_ = <<>> THEN unchanged
       ELSE IF conn # "open" THEN unchanged
       ELSE LET r == execute_values(table, flight_records_, fail_at, 1)
            IN IF r.raised THEN unchanged
               ELSE [table |-> r.table, ret |-> Len(flight_records_)]

\* the set of the values of a set of optional timestamps
RECURSIVE MaxOf(_)
MaxOf(S) ==
    LET x == CHOOSE y \in S : TRUE
    IN IF S = {x} THEN x
       ELSE LET m == MaxOf(S \ {x}) IN IF x > m THEN x ELSE m

\* the query without its WHERE clause: the latest departure of the table
get_latest_movement_timestamp_AnyRegistration(table, conn, registration, db_ok) ==
    LET ts == { m.actual_departure[1] :
                  m \in { x \in table : x.actual_departure # None } }
    IN IF conn # "open" \/ ~db_ok \/ ts = {} THEN None ELSE Some(MaxOf(ts))

\* get_latest_movement_timestamp(conn, registration): MAX(actual_departure)
\* of the registration's rows, None without rows or on a database error
get_latest_movement_timestamp(table, conn, registration, db_ok) ==
    LET ts == { m.actual_departure[1] :
                  m \in { x \in table : /\ x.registration = registration
                                        /\ x.actual_departure # None } }
    IN IF conn # "open" \/ ~db_ok \/ ts = {} THEN None ELSE Some(MaxOf(ts))

(***************************************************************************)
(* The progress file.                                                      *)
(***************************************************************************)
\* The file is <<>> when absent, else <<line>>, its first line stripped, as
\* the sequence of the pieces between its colons.  A text of the model is
\* one piece unless the table below gives its pieces.
ColonTable == ("N1:X" :> <<"N1", "X">>)
Pieces(text) == IF text \in DOMAIN ColonTable THEN ColonTable[text] ELSE <<text>>
JoinColon(pieces) ==
    IF Len(pieces) = 1 THEN pieces[1]
    ELSE CHOOSE text \in DOMAIN ColonTable : ColonTable[text] = pieces

\* write_progress(aircraft_type, registration): the file after the call,
\* f"{aircraft_type}:{registration}\n"
write_progress(aircraft_type, registration) ==
    Some(Pieces(aircraft_type) \o Pieces(registration))

\* line.split(':') read as its first two pieces
read_progress_SplitAll(file) ==
    IF file = None THEN None
    ELSE IF Len(file[1]) >= 2 THEN <<file[1][1], file[1][2]>> ELSE None

\* read_progress(): (last_type, last_reg) from line.split(':', 1) when the
\* line is not empty and holds a colon, None when there is no valid file
read_progress(file) ==
    IF file = None THEN None
    ELSE LET line == file[1]
         IN IF Len(line) >= 2
            THEN <<line[1], JoinColon(Tail(line))>>
            ELSE None

\* clear_progress(): the file after the call
clear_progress == None

(***************************************************************************)
(* Configuration and environment of the main loop.                         *)
(***************************************************************************)
\* the first types of the list of line 769
AIRCRAFT_TYPES_TO_SCRAPE == <<"A330", "B747">>

Years == {2025}

\* the configuration of the script as it stands: the types above and both
\* credentials set
DefaultConfig ==
    [ types |-> AIRCRAFT_TYPES_TO_SCRAPE, username |-> TRUE, password |-> TRUE ]

ListingRowOf(type_text, reg, airline) ==
    [ th |-> FALSE, ncells |-> 4, type_text |-> type_text, reg_link |-> Some(reg),
      airline_link |-> airline, airline_text |-> "" ]

\* the listing pages the site may serve for a type
ListingPages(aircraft_type) ==
    IF aircraft_type = "A330"
    THEN { [table |-> TRUE,
            rows |-> << ListingRowOf("A332", "N1", Some("Acme")),
                        ListingRowOf("A333", "N2", None) >>] }
    ELSE { [table |-> TRUE,
            rows |-> << ListingRowOf("B744", "N3", Some("Beta")) >>] }

HistoryRow(date, atd, status) ==
    [ ncells |-> 14, date |-> date, from |-> <<"New York ", "JFK)">>,
      to |-> <<"London ", "LHR)">>, flight |-> "AB123", flight_time |-> "7:00",
      std |-> "08:00", atd |-> atd, sta |-> "15:00", status |-> status ]

RowA == HistoryRow(<<"05", "Apr">>, "08:15", <<"Landed", "15:05">>)
RowAEnroute == HistoryRow(<<"05", "Apr">>, "08:15", <<"Estimated", "15:00">>)
RowB == HistoryRow(<<"06", "Apr">>, "09:30", <<"Landed", "15:05">>)
RowScheduled == HistoryRow(<<"06", "Apr">>, EmDash, <<"Scheduled">>)

\* the history pages the site may serve for a registration
HistoryPages ==
    { [nodata |-> TRUE, table |-> FALSE, rows |-> <<>>],
      [nodata |-> FALSE, table |-> TRUE, rows |-> <<RowAEnroute>>],
      [nodata |-> FALSE, table |-> TRUE, rows |-> <<RowScheduled, RowB, RowA>>] }

(***************************************************************************)
(* The __main__ block.                                                     *)
(***************************************************************************)
RunningPcs == { "Login", "Priming", "Credentialed", "LoginSleep", "Connect", "TypeLoop", "TypeDb", "ListFetch", "SaveRegs",
                "ListSleep", "RegLoop", "RegDb", "Watermark", "HistFetch",
                "Parse", "Persist", "Checkpoint", "Sleep", "Finish" }
\* between the start of an entity's cycle and its progress write
CyclePcs == { "Watermark", "HistFetch", "Parse", "Persist", "Checkpoint" }

CurrentType == config.types[type_index]
CurrentReg == aircraft_tuples_found[i][1]
CurrentPair == <<CurrentType, CurrentReg>>

\* prev_int is <<kind, pair, fate>>: how the run before was interrupted
\* ("mid": in the middle of the cycle of pair, "after": right after the
\* progress write of pair) and what this run did with pair so far
MarkSkipped(prev_int, pair) ==
    IF prev_int # None /\ prev_int[1][2] = pair
    THEN Some(<<prev_int[1][1], pair, "skipped">>) ELSE prev_int
\* prev_int is forgotten once the cycle of its entity is over
Forget(prev_int, pair) ==
    IF prev_int # None /\ prev_int[1][2] = pair THEN None ELSE prev_int

\* the history record at the start of a run: the place of the first failed
\* history fetch, whether something failed, the outcome of the save of the
\* current entity, whether its progress was written; the numbers of priming
\* and credentialed requests issued, whether the priming request succeeded,
\* and how the login ended; whether the delay after the last request is due;
\* the index of the last type whose listing page could not be fetched
NewRunHist(prev_int) ==
    [ first_fail |-> None, incomplete |-> FALSE, persist |-> "none",
      wrote |-> FALSE, prev_int |-> prev_int,
      priming |-> 0, credentialed |-> 0, priming_ok |-> FALSE, auth |-> "none",
      response |-> "none", delay |-> "none", undelayed |-> FALSE,
      list_failed |-> 0 ]

\* the history record after a request to the site: delay is "due" until the
\* script sleeps FETCH_DELAY_SECONDS, and undelayed remembers a request
\* issued while the delay after the request before it was still due
Requested(h) ==
    [h EXCEPT !.undelayed = @ \/ (h.delay = "due"), !.delay = "due"]
\* the history record after time.sleep(FETCH_DELAY_SECONDS)
Delayed(h) == [h EXCEPT !.delay = "done"]

\* the values of the locals of a process that is not running
NoProcess ==
    /\ logged_in = FALSE
    /\ start_after = None
    /\ found_start_type = TRUE
    /\ found_start_reg = TRUE
    /\ connection = "None"
    /\ type_index = 1
    /\ extracted_aircraft = <<>>
    /\ aircraft_tuples_found = <<>>
    /\ i = 1
    /\ latest_ts = None
    /\ history_html = None
    /\ flight_records = <<>>
    /\ processed = 0

Init ==
    /\ progress_file = None
    /\ pc = "Idle"
    /\ runs = 0
    /\ config = DefaultConfig
    /\ NoProcess
    /\ aircraft = <<>>
    /\ movements = {}
    /\ hist = NewRunHist(None)

\* lines 764-780: a new process reads the progress file
StartRun ==
    /\ pc \in {"Idle", "Done", "Interrupted"}
    /\ runs < MaxRuns
    /\ runs' = runs + 1
    /\ start_after' = read_progress(progress_file)
    /\ found_start_type' = (start_after' = None)
    /\ found_start_reg' = (start_after' = None)
    /\ pc' = "Login"
    /\ hist' = NewRunHist(hist.prev_int)
    /\ UNCHANGED <<progress_file, config, logged_in, connection, type_index,
                   extracted_aircraft, aircraft_tuples_found, i, latest_ts,
                   history_html, flight_records, processed, aircraft, movements>>

\* lines 782-792: the login attempt as one step (its steps follow and are
\* taken one by one under SpecLogin); its outcome is not read after line 790
Login ==
    /\ pc = "Login"
    /\ pc' = "Connect"
    /\ UNCHANGED <<progress_file, runs, config, logged_in, start_after, found_start_type,
                   found_start_reg, connection, type_index, extracted_aircraft,
                   aircraft_tuples_found, i, latest_ts, history_html,
                   flight_records, processed, aircraft, movements, hist>>

(***************************************************************************)
(* The login in its steps: the test of the credentials, the GET of the     *)
(* initial page, the POST of the login form, the delay after a success.    *)
(***************************************************************************)
\* only the user name is tested
HasCredentials_UsernameOnly == config.username

\* FR24_USERNAME and FR24_PASSWORD (lines 784 and 143)
HasCredentials == config.username /\ config.password

\* what session.get and raise_for_status of lines 178-179 may give
PrimingOutcomes == { "ok", "http_error", "network_error" }

\* what session.post and raise_for_status of lines 185-186 may give, and
\* for a response its content type and body
LoginResponses ==
    { "http_error", "network_error", "json_success_true",
      "json_status_success", "json_success_features_null", "json_failure",
      "json_invalid", "not_json" }

\* the value fr24_login returns for a response to the POST; on a success
\* body whose "features" is null, features.get of line 202 raises
\* AttributeError and lines 226-228 return False
LoginResult(response) ==
    response \in { "json_success_true", "json_status_success" }

\* how the attempt ended, for the properties
AuthOutcome(response) ==
    IF response \in { "http_error", "network_error" } THEN "unreachable"
    ELSE IF LoginResult(response) THEN "authenticated"
    ELSE "rejected"

\* a failed login ends the script
AfterLogin_Exit(result) == IF result THEN "LoginSleep" ELSE "Interrupted"

\* lines 786-790: the delay after a success, "Proceeding anyway" otherwise
AfterLogin(result) == IF result THEN "LoginSleep" ELSE "Connect"

\* the frame of the steps of the login
LoginFrame ==
    UNCHANGED <<progress_file, runs, config, start_after, found_start_type,
                found_start_reg, connection, type_index, extracted_aircraft,
                aircraft_tuples_found, i, latest_ts, history_html,
                flight_records, processed, aircraft, movements>>

\* lines 783-785 and 143-145: fr24_login is entered with both credentials
LoginStart ==
    /\ pc = "Login"
    /\ logged_in' = FALSE
    /\ pc' = IF HasCredentials THEN "Priming" ELSE "Connect"
    /\ UNCHANGED hist
    /\ LoginFrame

\* the POST is sent whatever the GET gave
PrimingRequest_NoStatusCheck ==
    /\ pc = "Priming"
    /\ \E outcome \in PrimingOutcomes :
          hist' = [Requested(hist) EXCEPT !.priming = @ + 1,
                                          !.priming_ok = (outcome = "ok")]
    /\ pc' = "Credentialed"
    /\ UNCHANGED logged_in
    /\ LoginFrame

\* lines 176-180: the GET of the initial page; an error is caught by lines
\* 216-228 and fr24_login returns False
PrimingRequest ==
    /\ pc = "Priming"
    /\ \E outcome \in PrimingOutcomes :
          IF outcome = "ok"
          THEN /\ hist' = [Requested(hist) EXCEPT !.priming = @ + 1,
                                                  !.priming_ok = TRUE]
               /\ pc' = "Credentialed"
               /\ UNCHANGED logged_in
          ELSE /\ hist' = [Requested(hist) EXCEPT !.priming = @ + 1,
                                                  !.auth = "unreachable"]
               /\ logged_in' = FALSE
               /\ pc' = AfterLogin(FALSE)
    /\ LoginFrame

\* lines 183-228: the POST of the login form and the test of its response
CredentialedRequest ==
    /\ pc = "Credentialed"
    /\ \E response \in LoginResponses :
          /\ hist' = [Requested(hist) EXCEPT !.credentialed = @ + 1,
                                             !.auth = AuthOutcome(response),
                                             !.response = response]
          /\ logged_in' = LoginResult(response)
          /\ pc' = AfterLogin(LoginResult(response))
    /\ LoginFrame

\* line 788: the delay after a successful login
LoginSleep ==
    /\ pc = "LoginSleep"
    /\ pc' = "Connect"
    /\ hist' = Delayed(hist)
    /\ UNCHANGED logged_in
    /\ LoginFrame

\* line 795: connection = get_db_connection()
Connect ==
    /\ pc = "Connect"
    /\ connection' \in {"open", "None"}
    /\ type_index' = 1
    /\ pc' = "TypeLoop"
    /\ UNCHANGED <<progress_file, runs, config, logged_in, start_after, found_start_type,
                   found_start_reg, extracted_aircraft, aircraft_tuples_found,
                   i, latest_ts, history_html, flight_records, processed,
                   aircraft, movements, hist>>

\* the places of the main loop that read the state of the connection
ConnectionReadPcs == { "TypeDb", "SaveRegs", "RegDb", "Watermark", "Persist" }

\* the remote side closes the connection; the loss shows at the next read
\* of the connection's state
DbDrop ==
    /\ pc \in ConnectionReadPcs
    /\ connection = "open"
    /\ connection' = "closed"
    /\ UNCHANGED <<progress_file, pc, runs, config, logged_in, start_after, found_start_type,
                   found_start_reg, type_index, extracted_aircraft,
                   aircraft_tuples_found, i, latest_ts, history_html,
                   flight_records, processed, aircraft, movements, hist>>

\* lines 798-807: the head of the loop over the types and the skipping of
\* the types before the one of the progress file
NextType ==
    /\ pc = "TypeLoop"
    /\ IF type_index > Len(config.types)
       THEN /\ pc' = "Finish"
            /\ UNCHANGED <<found_start_type, found_start_reg, type_index>>
       ELSE IF ~found_start_type /\ CurrentType # start_after[1]
       THEN /\ type_index' = type_index + 1          \* continue
            /\ UNCHANGED <<pc, found_start_type, found_start_reg>>
       ELSE /\ found_start_type' = TRUE
            /\ found_start_reg' = IF found_start_type THEN found_start_reg
                                  ELSE FALSE  \* start_after_reg is not None
            /\ pc' = "TypeDb"
            /\ UNCHANGED type_index
    /\ UNCHANGED <<progress_file, runs, config, logged_in, start_after, connection,
                   extracted_aircraft, aircraft_tuples_found, i, latest_ts,
                   history_html, flight_records, processed, aircraft,
                   movements, hist>>

\* lines 812-818: reconnect once when the connection is lost, skip the type
\* when that fails
CheckDbType ==
    /\ pc = "TypeDb"
    /\ IF connection = "open"
       THEN /\ pc' = "ListFetch"
            /\ UNCHANGED <<connection, type_index, hist>>
       ELSE \/ /\ connection' = "open"
               /\ pc' = "ListFetch"
               /\ UNCHANGED <<type_index, hist>>
            \/ /\ connection' = "None"
               /\ type_index' = type_index + 1       \* continue
               /\ pc' = "TypeLoop"
               /\ hist' = [hist EXCEPT !.incomplete = TRUE]
    /\ UNCHANGED <<progress_file, runs, config, logged_in, start_after, found_start_type,
                   found_start_reg, extracted_aircraft, aircraft_tuples_found,
                   i, latest_ts, history_html, flight_records, processed,
                   aircraft, movements>>

\* lines 822-832: fetch the listing page (None on a transport error) and
\* parse it
FetchListing ==
    /\ pc = "ListFetch"
    /\ \E html \in {None} \cup { Some(page) : page \in ListingPages(CurrentType) } :
          /\ extracted_aircraft' = IF html # None THEN extract_registrations(html)
                                                  ELSE <<>>
          /\ aircraft_tuples_found' = <<>>
          /\ IF extracted_aircraft' # <<>>
             THEN pc' = "SaveRegs" /\ hist' = Requested(hist)
             ELSE pc' = "ListSleep"
                  /\ hist' = [Requested(hist) EXCEPT
                                 !.incomplete = TRUE,
                                 !.list_failed = IF html = None THEN type_index
                                                 ELSE @]
    /\ UNCHANGED <<progress_file, runs, config, logged_in, start_after, found_start_type,
                   found_start_reg, connection, type_index, i, latest_ts,
                   history_html, flight_records, processed, aircraft, movements>>

\* lines 826-828: save_registrations_to_db and aircraft_tuples_found
SaveRegistrations ==
    /\ pc = "SaveRegs"
    /\ \E db_ok \in BOOLEAN :
          aircraft' = save_registrations_to_db(aircraft, connection,
                                               extracted_aircraft, db_ok).table
    /\ aircraft_tuples_found' = extracted_aircraft
    /\ pc' = "ListSleep"
    /\ UNCHANGED <<progress_file, runs, config, logged_in, start_after, found_start_type,
                   found_start_reg, connection, type_index, extracted_aircraft,
                   i, latest_ts, history_html, flight_records, processed,
                   movements, hist>>

\* lines 833-841: the delay after the listing, then the loop over the
\* registrations or the next type when there are none
ListSleep ==
    /\ pc = "ListSleep"
    /\ IF aircraft_tuples_found = <<>>
       THEN /\ type_index' = type_index + 1          \* continue
            /\ pc' = "TypeLoop"
            /\ UNCHANGED i
       ELSE /\ i' = 1
            /\ pc' = "RegLoop"
            /\ UNCHANGED type_index
    /\ extracted_aircraft' = <<>>
    /\ hist' = Delayed(hist)
    /\ UNCHANGED <<progress_file, runs, config, logged_in, start_after, found_start_type,
                   found_start_reg, connection, aircraft_tuples_found,
                   latest_ts, history_html, flight_records, processed,
                   aircraft, movements>>

\* the registration of the progress file is skipped too
SkipsRegistration_Exclusive(found, reg_to_fetch, start_after_reg) == ~found

\* the test of lines 844-850 on a registration: TRUE when it is skipped
\* because the registration of the progress file is not reached yet
SkipsRegistration(found, reg_to_fetch, start_after_reg) ==
    ~found /\ reg_to_fetch # start_after_reg

\* lines 841-850: the head of the loop over the registrations and the
\* skipping of those before the one of the progress file
NextReg ==
    /\ pc = "RegLoop"
    /\ IF i > Len(aircraft_tuples_found)
       THEN /\ type_index' = type_index + 1          \* end of the inner loop
            /\ pc' = "TypeLoop"
            /\ i' = 1
            /\ aircraft_tuples_found' = <<>>
            /\ UNCHANGED <<found_start_reg, hist>>
       ELSE IF SkipsRegistration(found_start_reg, CurrentReg,
                                 IF start_after = None THEN "" ELSE start_after[2])
       THEN /\ i' = i + 1                            \* continue
            /\ hist' = [hist EXCEPT !.prev_int = MarkSkipped(@, CurrentPair)]
            /\ UNCHANGED <<pc, type_index, aircraft_tuples_found, found_start_reg>>
       ELSE /\ found_start_reg' = TRUE
            /\ pc' = "RegDb"
            /\ UNCHANGED <<type_index, aircraft_tuples_found, i, hist>>
    /\ UNCHANGED <<progress_file, runs, config, logged_in, start_after, found_start_type,
                   connection, extracted_aircraft, latest_ts, history_html,
                   flight_records, processed, aircraft, movements>>

\* the same test with continue in place of break: after a failed reconnect
\* the next registration of the type is tried
CheckDbReg_Continue ==
    /\ pc = "RegDb"
    /\ \E conn \in IF connection = "open" THEN {"open"} ELSE {"open", "None"} :
          /\ connection' = conn
          /\ IF conn = "open"
             THEN /\ pc' = "Watermark"
                  /\ hist' = [hist EXCEPT !.persist = "none", !.wrote = FALSE]
                  /\ UNCHANGED i
             ELSE /\ pc' = "RegLoop"
                  /\ i' = i + 1
                  /\ hist' = [hist EXCEPT !.incomplete = TRUE]
    /\ UNCHANGED <<progress_file, runs, config, logged_in, start_after,
                   found_start_type, found_start_reg, type_index,
                   extracted_aircraft, aircraft_tuples_found, latest_ts,
                   history_html, flight_records, processed, aircraft, movements>>

\* lines 852-858: reconnect once when the connection is lost, leave the
\* loop over the registrations when that fails
CheckDbReg ==
    /\ pc = "RegDb"
    /\ \E conn \in IF connection = "open" THEN {"open"} ELSE {"open", "None"} :
          /\ connection' = conn
          /\ IF conn = "open"
             THEN /\ pc' = "Watermark"
                  /\ hist' = [hist EXCEPT !.persist = "none", !.wrote = FALSE]
                  /\ UNCHANGED <<type_index, aircraft_tuples_found, i>>
             ELSE /\ type_index' = type_index + 1    \* break
                  /\ pc' = "TypeLoop"
                  /\ i' = 1
                  /\ aircraft_tuples_found' = <<>>
                  /\ hist' = [hist EXCEPT !.incomplete = TRUE]
    /\ UNCHANGED <<progress_file, runs, config, logged_in, start_after, found_start_type,
                   found_start_reg, extracted_aircraft, latest_ts, history_html,
                   flight_records, processed, aircraft, movements>>

\* line 861: latest_ts = get_latest_movement_timestamp(connection, reg)
ResolveWatermark ==
    /\ pc = "Watermark"
    /\ \E db_ok \in BOOLEAN :
          latest_ts' = get_latest_movement_timestamp(movements, connection,
                                                     CurrentReg, db_ok)
    /\ pc' = "HistFetch"
    /\ UNCHANGED <<progress_file, runs, config, logged_in, start_after, found_start_type,
                   found_start_reg, connection, type_index, extracted_aircraft,
                   aircraft_tuples_found, i, history_html, flight_records,
                   processed, aircraft, movements, hist>>

\* lines 864-883 and 898-899: fetch the history page (None on a transport
\* error) and look for the no-data text.  The detail update of lines 867-876
\* writes only the detail columns of table aircraft, which stay at their
\* defaults here.
FetchHistoryFrom(pages) ==
    /\ pc = "HistFetch"
    /\ \E html \in {None} \cup { Some(page) : page \in pages } :
          /\ history_html' = html
          /\ IF html = None
             THEN /\ pc' = "Sleep"
                  /\ hist' = [Requested(hist) EXCEPT
                       !.incomplete = TRUE,
                       !.first_fail = IF @ = None THEN Some(<<type_index, i>>)
                                                  ELSE @]
             ELSE /\ pc' = IF html[1].nodata THEN "Checkpoint" ELSE "Parse"
                  /\ hist' = Requested(hist)
    /\ UNCHANGED <<progress_file, runs, config, logged_in, start_after, found_start_type,
                   found_start_reg, connection, type_index, extracted_aircraft,
                   aircraft_tuples_found, i, latest_ts, flight_records,
                   processed, aircraft, movements>>

FetchHistory == FetchHistoryFrom(HistoryPages)

\* the progress is written when the page is parsed, before the save
ParseHistory_WritesProgress ==
    /\ pc = "Parse"
    /\ \E current_year \in Years :
          flight_records' = extract_flight_history(history_html, CurrentReg,
                                                   latest_ts, current_year)
    /\ progress_file' = write_progress(CurrentType, CurrentReg)
    /\ pc' = IF flight_records' # <<>> THEN "Persist" ELSE "Sleep"
    /\ UNCHANGED <<runs, config, logged_in, start_after, found_start_type,
                   found_start_reg, connection, type_index, extracted_aircraft,
                   aircraft_tuples_found, i, latest_ts, history_html,
                   processed, aircraft, movements, hist>>

\* a page without new flights leaves the progress file as it is
ParseHistory_NoRecordsNoProgress ==
    /\ pc = "Parse"
    /\ \E current_year \in Years :
          flight_records' = extract_flight_history(history_html, CurrentReg,
                                                   latest_ts, current_year)
    /\ pc' = IF flight_records' # <<>> THEN "Persist" ELSE "Sleep"
    /\ UNCHANGED <<progress_file, runs, config, logged_in, start_after, found_start_type,
                   found_start_reg, connection, type_index, extracted_aircraft,
                   aircraft_tuples_found, i, latest_ts, history_html,
                   processed, aircraft, movements, hist>>

\* lines 885-886 and 895-896
ParseHistory ==
    /\ pc = "Parse"
    /\ \E current_year \in Years :
          flight_records' = extract_flight_history(history_html, CurrentReg,
                                                   latest_ts, current_year)
    /\ pc' = IF flight_records' # <<>> THEN "Persist" ELSE "Checkpoint"
    /\ UNCHANGED <<progress_file, runs, config, logged_in, start_after, found_start_type,
                   found_start_reg, connection, type_index, extracted_aircraft,
                   aircraft_tuples_found, i, latest_ts, history_html,
                   processed, aircraft, movements, hist>>

\* lines 888-894: save the movements; progress is written when
\* processed >= 0
SaveFlightHistory ==
    /\ pc = "Persist"
    /\ \E db_ok \in BOOLEAN :
          LET r == save_flight_history_to_db(movements, connection,
                                             flight_records, db_ok)
          IN /\ movements' = r.table
             /\ processed' = r.ret
             /\ hist' = IF r.ret = Len(flight_records)
                        THEN [hist EXCEPT !.persist = "ok"]
                        ELSE [hist EXCEPT !.persist = "failed", !.incomplete = TRUE]
    /\ pc' = IF processed' >= 0 THEN "Checkpoint" ELSE "Sleep"
    /\ UNCHANGED <<progress_file, runs, config, logged_in, start_after, found_start_type,
                   found_start_reg, connection, type_index, extracted_aircraft,
                   aircraft_tuples_found, i, latest_ts, history_html,
                   flight_records, aircraft>>

\* lines 882, 892 and 897: write_progress(target_aircraft_type, reg_to_fetch)
WriteProgress ==
    /\ pc = "Checkpoint"
    /\ progress_file' = write_progress(CurrentType, CurrentReg)
    /\ hist' = [hist EXCEPT !.wrote = TRUE]
    /\ pc' = "Sleep"
    /\ UNCHANGED <<runs, config, logged_in, start_after, found_start_type, found_start_reg,
                   connection, type_index, extracted_aircraft,
                   aircraft_tuples_found, i, latest_ts, history_html,
                   flight_records, processed, aircraft, movements>>

\* lines 901-902: the delay, then the next registration; the values of the
\* entity just handled are not read again
Sleep ==
    /\ pc = "Sleep"
    /\ i' = i + 1
    /\ latest_ts' = None
    /\ history_html' = None
    /\ flight_records' = <<>>
    /\ processed' = 0
    /\ pc' = "RegLoop"
    /\ hist' = [Delayed(hist) EXCEPT !.prev_int = Forget(@, CurrentPair)]
    /\ UNCHANGED <<progress_file, runs, config, logged_in, start_after, found_start_type,
                   found_start_reg, connection, type_index, extracted_aircraft,
                   aircraft_tuples_found, aircraft, movements>>

\* the end of a process without the finally block: the connection stays
\* as it is
EndProcess_NoFinally ==
    /\ logged_in' = FALSE
    /\ start_after' = None
    /\ found_start_type' = TRUE
    /\ found_start_reg' = TRUE
    /\ connection' = connection
    /\ type_index' = 1
    /\ extracted_aircraft' = <<>>
    /\ aircraft_tuples_found' = <<>>
    /\ i' = 1
    /\ latest_ts' = None
    /\ history_html' = None
    /\ flight_records' = <<>>
    /\ processed' = 0

\* the end of a process: its locals are gone, the connection is closed by
\* the finally block of lines 916-924
EndProcess ==
    /\ logged_in' = FALSE
    /\ start_after' = None
    /\ found_start_type' = TRUE
    /\ found_start_reg' = TRUE
    /\ connection' = "None"
    /\ type_index' = 1
    /\ extracted_aircraft' = <<>>
    /\ aircraft_tuples_found' = <<>>
    /\ i' = 1
    /\ latest_ts' = None
    /\ history_html' = None
    /\ flight_records' = <<>>
    /\ processed' = 0

\* the end of the loop without clear_progress()
Finish_KeepsProgress ==
    /\ pc = "Finish"
    /\ pc' = "Done"
    /\ hist' = [hist EXCEPT !.prev_int = None]
    /\ EndProcess
    /\ UNCHANGED <<progress_file, runs, config, aircraft, movements>>

\* lines 907-910: all types done, clear_progress()
Finish ==
    /\ pc = "Finish"
    /\ progress_file' = clear_progress
    /\ pc' = "Done"
    /\ hist' = [hist EXCEPT !.prev_int = None]
    /\ EndProcess
    /\ UNCHANGED <<runs, config, aircraft, movements>>

\* how a run was interrupted: in the middle of an entity's cycle, right
\* after an entity's progress write, or elsewhere
InterruptKind ==
    IF pc \in CyclePcs THEN Some(<<"mid", CurrentPair, "pending">>)
    ELSE IF pc = "Sleep" /\ hist.wrote THEN Some(<<"after", CurrentPair, "pending">>)
    ELSE None

\* an exception handler that clears the progress file
Interrupt_ClearsProgress ==
    /\ pc \in RunningPcs
    /\ pc' = "Interrupted"
    /\ progress_file' = clear_progress
    /\ hist' = [hist EXCEPT !.prev_int = InterruptKind]
    /\ EndProcess
    /\ UNCHANGED <<runs, config, aircraft, movements>>

\* lines 912-924: KeyboardInterrupt or an unhandled exception ends the
\* process; the progress file is left as it is
Interrupt ==
    /\ pc \in RunningPcs
    /\ pc' = "Interrupted"
    /\ hist' = [hist EXCEPT !.prev_int = InterruptKind]
    /\ EndProcess
    /\ UNCHANGED <<progress_file, runs, config, aircraft, movements>>

Next ==
    \/ StartRun
    \/ Login
    \/ Connect
    \/ DbDrop
    \/ NextType
    \/ CheckDbType
    \/ FetchListing
    \/ SaveRegistrations
    \/ ListSleep
    \/ NextReg
    \/ CheckDbReg
    \/ ResolveWatermark
    \/ FetchHistory
    \/ ParseHistory
    \/ SaveFlightHistory
    \/ WriteProgress
    \/ Sleep
    \/ Finish
    \/ Interrupt

Spec == Init /\ [][Next]_vars

(***************************************************************************)
(* Properties of the main loop (specification Spec).                       *)
(***************************************************************************)
SameTriple(a, b) ==
    /\ a.registration = b.registration
    /\ a.flight_number = b.flight_number
    /\ a.actual_departure = b.actual_departure

TypeIdx(aircraft_type) ==
    CHOOSE k \in 1..Len(AIRCRAFT_TYPES_TO_SCRAPE) :
        AIRCRAFT_TYPES_TO_SCRAPE[k] = aircraft_type

\* the registration is listed at or after position i of the current listing
ListedFrom(reg, k) ==
    \E j \in k..Len(aircraft_tuples_found) : aircraft_tuples_found[j][1] = reg

\* C1: over any sequence of runs the movements table never holds two rows
\* with the same (registration, flight_number, actual_departure): a record
\* whose triple is stored already is not inserted again.
C1_UniqueTriple ==
    \A a, b \in movements : SameTriple(a, b) => a = b

\* a save went through although one of its records met a stored row with
\* the same triple and other fields
C1_Witness ==
    /\ pc = "Checkpoint"
    /\ processed > 0
    /\ \E k \in 1..Len(flight_records) : \E m \in movements :
          SameTriple(m, flight_records[k]) /\ m # flight_records[k]

\* C2: after an interruption right after the progress write of entity E,
\* the next run starts no cycle for E nor for an entity listed before E in
\* E's type.
C2_ResumesAfterCheckpointed ==
    (hist.prev_int # None /\ hist.prev_int[1][1] = "after")
        => ~( /\ pc \in CyclePcs
              /\ CurrentType = hist.prev_int[1][2][1]
              /\ ListedFrom(hist.prev_int[1][2][2], i) )

\* the step of NextReg that skips the current registration
SkipStep ==
    /\ pc = "RegLoop"
    /\ i <= Len(aircraft_tuples_found)
    /\ pc' = "RegLoop"
    /\ i' = i + 1

\* in a resumed run, nothing of a type before the one of the progress file
\* is fetched, and no cycle runs for a registration listed before the one
\* of the progress file
C3_NothingBeforeCheckpoint ==
    start_after # None =>
        /\ pc \in {"TypeDb", "ListFetch", "SaveRegs", "ListSleep", "RegLoop",
                   "RegDb", "Sleep"} \cup CyclePcs
              => type_index >= TypeIdx(start_after[1])
        /\ (pc \in CyclePcs \cup {"RegDb", "Sleep"} /\ CurrentType = start_after[1])
              => \E j \in 1..i : aircraft_tuples_found[j][1] = start_after[2]

C4_NoProgressOnSaveFailure ==
    ~(hist.persist = "failed" /\ hist.wrote)

\* C5: after a failed history fetch for entity E the progress file is not
\* advanced past E during that run.
C5_NotAdvancedPastFailedFetch ==
    hist.first_fail # None =>
        ~( /\ pc = "Sleep"
           /\ hist.wrote
           /\ \/ type_index > hist.first_fail[1][1]
              \/ type_index = hist.first_fail[1][1] /\ i > hist.first_fail[1][2] )

\* C6: the progress file is cleared only at the end of a run in which no
\* listing fetch, history fetch, save or reconnect failed.
C6_ClearedOnlyWhenComplete ==
    (pc = "Done" /\ progress_file = None) => ~hist.incomplete

\* C7: an entity whose cycle was interrupted before its progress write is
\* not skipped by the next run.
C7_InterruptedEntityRetried ==
    ~( /\ hist.prev_int # None
       /\ hist.prev_int[1][1] = "mid"
       /\ hist.prev_int[1][3] = "skipped" )

\* C17: when the connection is found closed or missing at the start of a
\* type or of a registration, one reconnect is attempted in that step; when
\* it succeeds the type or registration is processed, and when it fails
\* nothing more of the current type is fetched or stored in this run: the
\* script is at the head of the loop with the next type, the two tables
\* untouched, and it never comes back to a type it has left.
C17_ReconnectOnceElseNextType ==
    [][ /\ ( /\ pc \in { "TypeDb", "RegDb" }
             /\ connection # "open"
             /\ pc' # "Interrupted" )
           => \/ /\ connection' = "open"
                 /\ pc' = IF pc = "TypeDb" THEN "ListFetch" ELSE "Watermark"
                 /\ type_index' = type_index
              \/ /\ connection' = "None"
                 /\ pc' = "TypeLoop"
                 /\ type_index' = type_index + 1
                 /\ aircraft' = aircraft
                 /\ movements' = movements
        /\ (pc \in RunningPcs /\ pc' \in RunningPcs)
              => type_index' >= type_index ]_vars

\* the reconnect failed at the second registration of the first type: the
\* script is at the second type, without connection, the progress file at
\* the first registration
C17_Witness ==
    /\ pc = "TypeLoop"
    /\ type_index = 2
    /\ connection = "None"
    /\ hist.wrote
    /\ progress_file = write_progress("A330", "N1")

\* C19: a KeyboardInterrupt or an unhandled exception ends the run
\* interrupted with the progress file as it was last written, neither
\* cleared nor rewritten, and with the two tables as they were; the file is
\* cleared only by the step that ends a run that was not interrupted.
C19_InterruptKeepsProgressFile ==
    [][ /\ (pc \in RunningPcs /\ pc' = "Interrupted")
           => /\ progress_file' = progress_file
              /\ aircraft' = aircraft
              /\ movements' = movements
        /\ (progress_file # None /\ progress_file' = None)
           => (pc = "Finish" /\ pc' = "Done") ]_vars

\* a run was interrupted in the cycle of the second registration; the
\* progress file names the first
C19_Witness ==
    /\ pc = "Interrupted"
    /\ progress_file = write_progress("A330", "N1")
    /\ hist.prev_int = Some(<<"mid", <<"A330", "N2">>, "pending">>)

\* C21: every row of table movements has an actual departure, and no record
\* without one is in the list handed to save_flight_history_to_db, with or
\* without a latest known departure.
C21_StoredEventsHaveDeparture ==
    /\ \A m \in movements : m.actual_departure # None
    /\ \A k \in 1..Len(flight_records) : flight_records[k].actual_departure # None

\* a page with a row without departure time was parsed without a latest
\* known departure and its two other rows were saved
C21_Witness ==
    /\ pc = "Checkpoint"
    /\ hist.persist = "ok"
    /\ latest_ts = None
    /\ history_html # None
    /\ \E k \in 1..Len(history_html[1].rows) : history_html[1].rows[k] = RowScheduled
    /\ Len(flight_records) = 2
    /\ \A k \in 1..2 : flight_records[k] \in movements

\* C22: a row of table movements, once stored, stays in the table with all
\* its columns through every later step of every run: a record observed
\* again with the same registration, flight number and actual departure
\* but other columns (an actual arrival that is known now) leaves the stored
\* row as it was.
C22_StoredEventsImmutable ==
    [][ \A m \in movements : m \in movements' ]_vars

\* a save went through with a record whose key is stored with another
\* actual arrival; the stored row is the old one
C22_Witness ==
    /\ pc = "Checkpoint"
    /\ hist.persist = "ok"
    /\ \E k \in 1..Len(flight_records) :
          \E m \in movements :
             /\ SameKey(m, flight_records[k])
             /\ m.actual_arrival = None
             /\ flight_records[k].actual_arrival # None
             /\ flight_records[k] \notin movements

\* the places of an entity's turn, from the read of its latest known
\* departure to the delay after it
TurnPcs == CyclePcs \cup { "Sleep" }

\* C25: for every registration handled in a run the steps come in this
\* order and within one turn of the loop: latest known departure, history
\* fetch, parse with that departure, save of the records, progress write
\* for (type, registration), delay.  The progress is written only at the
\* end of the turn, after the save was attempted when there are records;
\* the movements are written only by the save; and a history page is
\* fetched only for a list that went through save_registrations_to_db.
C25_StepsInOrder ==
    [][ pc' # "Interrupted" =>
          /\ pc = "Watermark" => pc' \in { "Watermark", "HistFetch" }
          /\ pc = "HistFetch" => pc' \in { "Parse", "Checkpoint", "Sleep" }
          /\ pc = "Parse" =>
                /\ pc' \in { "Persist", "Checkpoint" }
                /\ \E current_year \in Years :
                      flight_records' = extract_flight_history(
                          history_html, CurrentReg, latest_ts, current_year)
          /\ pc = "Persist" => pc' \in { "Persist", "Checkpoint", "Sleep" }
          /\ pc = "Checkpoint" => pc' = "Sleep"
          /\ pc = "Sleep" => pc' = "RegLoop"
          /\ pc' = "Watermark" => pc \in { "RegDb", "Watermark" }
          /\ (pc \in TurnPcs /\ pc' \in TurnPcs)
                => /\ i' = i
                   /\ type_index' = type_index
                   /\ aircraft_tuples_found' = aircraft_tuples_found
          /\ (progress_file' # progress_file /\ pc' # "Done")
                => /\ pc = "Checkpoint"
                   /\ progress_file' = write_progress(CurrentType, CurrentReg)
                   /\ flight_records # <<>> => hist.persist # "none"
          /\ movements' # movements => pc = "Persist"
          /\ pc \in TurnPcs => i \in 1..Len(aircraft_tuples_found)
          /\ aircraft_tuples_found' # aircraft_tuples_found
                => (pc = "SaveRegs" \/ aircraft_tuples_found' = <<>>) ]_vars

\* the turn of a registration with a latest known departure is at its
\* delay: records saved, progress written
C25_Witness ==
    /\ pc = "Sleep"
    /\ latest_ts # None
    /\ flight_records # <<>>
    /\ hist.persist = "ok"
    /\ hist.wrote
    /\ progress_file = write_progress(CurrentType, CurrentReg)

\* the actual departures stored for a registration
StoredDepartures(registration) ==
    { m.actual_departure[1] :
        m \in { x \in movements : /\ x.registration = registration
                                  /\ x.actual_departure # None } }

\* between the read of the latest known departure and the save
WatermarkInUsePcs == { "HistFetch", "Parse", "Persist" }

C31_FailedListingSkipsOneType ==
    [][ /\ (pc = "ListFetch" /\ hist'.list_failed = type_index
                              /\ hist.list_failed # type_index)
            => /\ pc' = "ListSleep"
               /\ aircraft_tuples_found' = <<>>
               /\ UNCHANGED <<progress_file, aircraft, movements, type_index>>
        /\ (pc = "ListSleep" /\ hist.list_failed = type_index
                              /\ pc' # "Interrupted")
            => /\ pc' = "TypeLoop"
               /\ type_index' = type_index + 1
               /\ UNCHANGED <<progress_file, aircraft, movements>>
        /\ (hist.list_failed # 0 /\ type_index > hist.list_failed)
            => ~SkipStep ]_vars

\* the same without its last part
C31_FailedListingSkipsItsType ==
    [][ /\ (pc = "ListFetch" /\ hist'.list_failed = type_index
                              /\ hist.list_failed # type_index)
            => /\ pc' = "ListSleep"
               /\ aircraft_tuples_found' = <<>>
               /\ UNCHANGED <<progress_file, aircraft, movements, type_index>>
        /\ (pc = "ListSleep" /\ hist.list_failed = type_index
                              /\ pc' # "Interrupted")
            => /\ pc' = "TypeLoop"
               /\ type_index' = type_index + 1
               /\ UNCHANGED <<progress_file, aircraft, movements>> ]_vars

\* C32: in a resumed run a registration is passed over because of the
\* progress file only in the type of the progress file: in every later type
\* each registration of the listing gets its cycle.
C32_ResumeSkippingConfined ==
    [][SkipStep => /\ start_after # None
                   /\ CurrentType = start_after[1]]_vars

\* C36: a history page is fetched only for a registration that is in table
\* aircraft, and table movements holds no row whose registration is not in
\* table aircraft.
C36_EventsOfStoredEntities ==
    /\ history_html # None => CurrentReg \in DOMAIN aircraft
    /\ \A m \in movements : m.registration \in DOMAIN aircraft

\* the second part alone: no movement without its aircraft
C36_NoOrphanMovement ==
    \A m \in movements : m.registration \in DOMAIN aircraft

\* the page of the current registration was fetched and has the no-data
\* text, or was parsed into no record
NothingNew ==
    /\ history_html # None
    /\ \/ history_html[1].nodata
       \/ pc \in {"Checkpoint", "Sleep"} /\ flight_records = <<>>

\* C37: when the history page of a registration has the no-data text or is
\* parsed into no new record, nothing is saved for the registration and the
\* progress file is set to its type and registration before the delay; in
\* the cycle of a registration the progress file is written at most once.
C37_NothingNewAdvancesProgress ==
    /\ [](( pc \in {"Checkpoint", "Sleep"} /\ NothingNew )
             => /\ hist.persist = "none"
                /\ processed = 0)
    /\ [](( pc = "Sleep" /\ NothingNew )
             => /\ hist.wrote
                /\ progress_file # None
                /\ read_progress(progress_file) = <<CurrentType, CurrentReg>>)
    /\ [][ /\ (pc = "HistFetch" /\ history_html' # None /\ history_html'[1].nodata)
               => pc' = "Checkpoint" /\ UNCHANGED <<movements, progress_file>>
           /\ (pc = "Parse" /\ pc' # "Interrupted" /\ flight_records' = <<>>)
               => pc' = "Checkpoint" /\ UNCHANGED <<movements, progress_file>>
           /\ (pc = "Checkpoint" /\ NothingNew /\ pc' # "Interrupted")
               => pc' = "Sleep" /\ UNCHANGED movements
           /\ (pc \in TurnPcs /\ pc' \in TurnPcs /\ progress_file' # progress_file)
               => pc = "Checkpoint" /\ ~hist.wrote /\ hist'.wrote
           /\ (pc \in TurnPcs /\ pc' \in TurnPcs /\ hist.wrote)
               => pc' = "Sleep" ]_vars

\* all rows of the page are at or before the latest known departure: no
\* record, nothing saved, progress written
C37_Witness ==
    /\ pc = "Sleep"
    /\ history_html # None
    /\ ~history_html[1].nodata
    /\ Len(history_html[1].rows) > 0
    /\ latest_ts # None
    /\ flight_records = <<>>
    /\ hist.persist = "none"
    /\ read_progress(progress_file) = <<CurrentType, CurrentReg>>

(***************************************************************************)
(* Specification SpecCutoff: runs of the __main__ block in which the       *)
(* history page of a registration shows its latest flight first and, in a  *)
(* later fetch, an earlier flight as well.                                 *)
(***************************************************************************)
CutoffPages ==
    { [nodata |-> FALSE, table |-> TRUE, rows |-> <<RowB>>],
      [nodata |-> FALSE, table |-> TRUE, rows |-> <<RowScheduled, RowB, RowA>>] }

NextCutoff ==
    \/ StartRun
    \/ Login
    \/ Connect
    \/ DbDrop
    \/ NextType
    \/ CheckDbType
    \/ FetchListing
    \/ SaveRegistrations
    \/ ListSleep
    \/ NextReg
    \/ CheckDbReg
    \/ ResolveWatermark
    \/ FetchHistoryFrom(CutoffPages)
    \/ ParseHistory
    \/ SaveFlightHistory
    \/ WriteProgress
    \/ Sleep
    \/ Finish
    \/ Interrupt

SpecCutoff == Init /\ [][NextCutoff]_vars

\* the cycle of the current registration went through: its page was
\* fetched and is not the no-data page, its new records, if any, were
\* saved, and its progress was written
CycleSucceeded ==
    /\ pc = "Sleep"
    /\ history_html # None
    /\ ~history_html[1].nodata
    /\ hist.persist # "failed"
    /\ hist.wrote

\* the row of a page is stored for a registration, under its flight number
\* and its actual departure
RowStored(row, registration, current_year) ==
    \E m \in movements :
       /\ m.registration = registration
       /\ m.flight_number = row.flight
       /\ m.actual_departure
             = parse_fr24_datetime(row.date, row.atd, current_year)

\* C38: after the cycle of a registration went through, every row of its
\* page that has an actual departure is in table movements, also a row
\* that departed before the latest known departure and was not stored.
C38_CutoffLosesNoEvent ==
    CycleSucceeded =>
        \A k \in 1..Len(history_html[1].rows) :
           LET row == history_html[1].rows[k]
           IN \A current_year \in Years :
                 ( /\ row.ncells >= expected_min_cells
                   /\ parse_fr24_datetime(row.date, row.atd, current_year) # None )
                 => RowStored(row, CurrentReg, current_year)

\* the same for the cycles that ran without a latest known departure
C38_NoLossWithoutWatermark ==
    (CycleSucceeded /\ latest_ts = None) =>
        \A k \in 1..Len(history_html[1].rows) :
           LET row == history_html[1].rows[k]
           IN \A current_year \in Years :
                 ( /\ row.ncells >= expected_min_cells
                   /\ parse_fr24_datetime(row.date, row.atd, current_year) # None )
                 => RowStored(row, CurrentReg, current_year)

(***************************************************************************)
(* Specification SpecRetry: the script invoked again and again without a   *)
(* bound on the number of runs, each step of a run taken in the end.       *)
(***************************************************************************)
\* lines 764-780: one more process reads the progress file
Rerun ==
    /\ pc \in {"Idle", "Done", "Interrupted"}
    /\ start_after' = read_progress(progress_file)
    /\ found_start_type' = (start_after' = None)
    /\ found_start_reg' = (start_after' = None)
    /\ pc' = "Login"
    /\ hist' = NewRunHist(hist.prev_int)
    /\ UNCHANGED <<progress_file, runs, config, logged_in, connection, type_index,
                   extracted_aircraft, aircraft_tuples_found, i, latest_ts,
                   history_html, flight_records, processed, aircraft, movements>>

\* the history page the site serves for every registration in these runs
RetryPage ==
    [nodata |-> FALSE, table |-> TRUE, rows |-> <<RowScheduled, RowB, RowA>>]

NextRetry ==
    \/ Rerun
    \/ Login
    \/ Connect
    \/ DbDrop
    \/ NextType
    \/ CheckDbType
    \/ FetchListing
    \/ SaveRegistrations
    \/ ListSleep
    \/ NextReg
    \/ CheckDbReg
    \/ ResolveWatermark
    \/ FetchHistory /\ history_html' \in {None, Some(RetryPage)}
    \/ ParseHistory
    \/ SaveFlightHistory
    \/ WriteProgress
    \/ Sleep
    \/ Finish
    \/ Interrupt

\* a process that is started runs on, and the script is started again after
\* every run
SpecRetry == Init /\ [][NextRetry]_vars /\ WF_vars(NextRetry)

\* a step in which a fetch, the database or the connection fails, or the
\* process is interrupted
FailureStep ==
    \/ pc = "Connect" /\ connection' # "open"
    \/ connection = "open" /\ connection' = "closed"
    \/ pc \in {"TypeDb", "RegDb"} /\ connection' # "open"
    \/ pc = "ListFetch" /\ pc' = "ListSleep"
    \/ pc = "SaveRegs" /\ \E k \in 1..Len(extracted_aircraft) :
                             extracted_aircraft[k][1] \notin DOMAIN aircraft'
    \/ pc = "HistFetch" /\ history_html' = None
    \/ pc = "Persist" /\ hist'.persist = "failed"
    \/ pc' = "Interrupted"

\* all registrations of the listings of the configured types
ListedRegs ==
    UNION { { page.rows[k].reg_link[1] : k \in 1..Len(page.rows) } :
              page \in UNION { ListingPages(AIRCRAFT_TYPES_TO_SCRAPE[t]) :
                                 t \in 1..Len(AIRCRAFT_TYPES_TO_SCRAPE) } }

\* the cycle of a registration is over: its page was fetched, its new
\* flights, if any, were saved, and its progress was written
CycleCompleted(reg) ==
    /\ pc = "Sleep"
    /\ CurrentReg = reg
    /\ history_html # None
    /\ hist.persist # "failed"
    /\ hist.wrote

\* a run went through all types without a failure and cleared the progress
\* file
RunCompleted ==
    /\ pc = "Done"
    /\ ~hist.incomplete
    /\ progress_file = None

\* C33: if the script is started again and again and from some point on no
\* fetch, no database operation and no connection fails and no run is
\* interrupted, then every registration of the listings of the configured
\* types has its cycle completed in some run, and some run goes through all
\* types and clears the progress file.
C33_RetryMakesProgress ==
    (<>[][~FailureStep]_vars) =>
        /\ \A reg \in ListedRegs : <>CycleCompleted(reg)
        /\ <>RunCompleted

\* a resumed run completes the cycle of the registration of its progress
\* file
C33_Witness ==
    /\ start_after # None
    /\ CycleCompleted(start_after[2])
    /\ hist.persist = "ok"

\* C34: every run that is started ends, with all types gone through or
\* interrupted, whatever fails on the way, and after its end the database
\* connection is not open.
C34_RunTerminatesConnectionClosed ==
    /\ (pc = "Login") ~> (pc \in {"Done", "Interrupted"})
    /\ [](pc \in {"Done", "Interrupted"} => connection # "open")

\* a run that saved the flights of its last registration over an open
\* connection has ended
C34_Witness ==
    /\ pc = "Done"
    /\ hist.persist = "ok"
    /\ hist.incomplete
    /\ connection = "None"

(***************************************************************************)
(* Specification SpecParse: extract_flight_history applied to the pages of *)
(* at most MaxRows rows, under every watermark and year of the model.      *)
(***************************************************************************)
RowShort == [RowA EXCEPT !.ncells = 11]
RowLastYear == HistoryRow(<<"06", "Apr", "2024">>, "09:30", <<"Landed", "15:05">>)
RowBadDate == HistoryRow(<<"Apr", "05">>, "08:15", <<"Landed", "15:05">>)
\* scheduled arrival, landing time and flight time that do not parse
RowBadTimes == [HistoryRow(<<"05", "Apr">>, "09:30", <<"Landed", "25:99">>)
                  EXCEPT !.sta = "25:99", !.flight_time = "7h"]
RowHugeFlightTime == [RowB EXCEPT !.flight_time = "99999999999:00"]

ParseRowSet == { RowA, RowAEnroute, RowB, RowScheduled, RowShort, RowLastYear,
                 RowBadDate, RowBadTimes, RowHugeFlightTime }
ParseYears == {2025, 2026}
ParseWatermarks ==
    {None} \cup { Some(Timestamp(y, 4, d, m)) :
                    y \in {2024, 2025}, d \in {5, 6}, m \in {480, 495, 570} }
ParsePages ==
    {None} \cup { Some([nodata |-> FALSE, table |-> FALSE, rows |-> <<>>]) }
           \cup { Some([nodata |-> FALSE, table |-> TRUE, rows |-> rows]) :
                    rows \in SeqsUpTo(ParseRowSet, MaxRows) }

InitParse ==
    /\ progress_file = None
    /\ pc = "ParseIn"
    /\ runs = 0
    /\ config = DefaultConfig
    /\ logged_in = FALSE
    /\ start_after = None
    /\ found_start_type = TRUE
    /\ found_start_reg = TRUE
    /\ connection = "None"
    /\ type_index = 1
    /\ extracted_aircraft = <<>>
    /\ aircraft_tuples_found = <<>>
    /\ i = 1
    /\ latest_ts \in ParseWatermarks
    /\ history_html \in ParsePages
    /\ flight_records = <<>>
    /\ processed = 0
    /\ aircraft = <<>>
    /\ movements = {}
    /\ hist \in { [current_year |-> y, skipped_rows |-> 0] : y \in ParseYears }

\* flights = extract_flight_history(html_content, "N1", latest_ts); the
\* function keeps one counter, new_flights_found_count, the length of its
\* result, and none of the rows it drops: skipped_rows stays as it is
ExtractStep ==
    /\ pc = "ParseIn"
    /\ flight_records' = extract_flight_history(history_html, "N1", latest_ts,
                                                hist.current_year)
    /\ pc' = "ParseOut"
    /\ UNCHANGED <<progress_file, runs, config, logged_in, start_after, found_start_type,
                   found_start_reg, connection, type_index, extracted_aircraft,
                   aircraft_tuples_found, i, latest_ts, history_html,
                   processed, aircraft, movements, hist>>

NextParse == ExtractStep

SpecParse == InitParse /\ [][NextParse]_vars

\* the departure times the rows of the page resolve to
PageDepartures ==
    IF history_html = None THEN {}
    ELSE { parse_fr24_datetime(history_html[1].rows[k].date,
                               history_html[1].rows[k].atd, hist.current_year) :
             k \in 1..Len(history_html[1].rows) } \ {None}

\* C8: with a watermark T, extract_flight_history returns only records whose
\* actual departure is strictly after T, and nothing at all from a page
\* whose rows all depart at or before T.
C8_WatermarkExclusive ==
    (pc = "ParseOut" /\ latest_ts # None) =>
        /\ \A k \in 1..Len(flight_records) :
              flight_records[k].actual_departure[1] > latest_ts[1]
        /\ (\A atd \in PageDepartures : atd[1] <= latest_ts[1])
              => flight_records = <<>>

\* a page with a full row that departs exactly at the watermark gives nothing
C8_Witness ==
    /\ pc = "ParseOut"
    /\ latest_ts # None
    /\ history_html # None
    /\ \E k \in 1..Len(history_html[1].rows) :
          /\ history_html[1].rows[k].ncells >= expected_min_cells
          /\ parse_fr24_datetime(history_html[1].rows[k].date,
                                 history_html[1].rows[k].atd,
                                 hist.current_year) = latest_ts
    /\ flight_records = <<>>

\* the well-formed row of the scenario: 05 Apr, New York (JFK) to London
\* (LHR), AB123, flight time 7:00, std 08:00, atd 08:15, sta 15:00,
\* status "Landed 15:05", alone on its page
ScenarioPage == Some([nodata |-> FALSE, table |-> TRUE, rows |-> <<RowA>>])

\* C13: from the one well-formed row above, without a watermark and in the
\* year 2025, extract_flight_history returns exactly one record: flight
\* AB123 from JFK to LHR, actual departure 5 April 2025 08:15, actual
\* arrival 5 April 2025 15:05, flight time 7 hours.
C13_WellFormedRowParsed ==
    ( /\ pc = "ParseOut"
      /\ history_html = ScenarioPage
      /\ latest_ts = None
      /\ hist.current_year = 2025 )
    => /\ Len(flight_records) = 1
       /\ flight_records[1].flight_number = "AB123"
       /\ flight_records[1].origin_code = "JFK"
       /\ flight_records[1].destination_code = "LHR"
       /\ flight_records[1].actual_departure
             = Some(Timestamp(2025, 4, 5, 8 * 60 + 15))
       /\ flight_records[1].actual_arrival
             = Some(Timestamp(2025, 4, 5, 15 * 60 + 5))
       /\ flight_records[1].flight_time = Some(7 * 60)

\* the scenario was parsed and gave a record
C13_Witness ==
    /\ pc = "ParseOut"
    /\ history_html = ScenarioPage
    /\ latest_ts = None
    /\ hist.current_year = 2025
    /\ flight_records # <<>>
    /\ flight_records[1].registration = "N1"

\* a row of a history page that cannot be parsed: too few cells, or no
\* departure time that resolves
UnparseableRow(row) ==
    \/ row.ncells < expected_min_cells
    \/ parse_fr24_datetime(row.date, row.atd, hist.current_year) = None
    \/ row.flight_time \in HugeFlightTimes

\* C24, for a history page: the rows that cannot be parsed are dropped and
\* counted as skipped, and the other rows of the page are still parsed.
C24_UnparseableRowsCounted ==
    (pc = "ParseOut" /\ history_html # None /\ history_html[1].table) =>
        LET rows == history_html[1].rows
        IN /\ hist.skipped_rows = Len(SelectSeq(rows, UnparseableRow))
           /\ latest_ts = None
                 => Len(flight_records) = Len(rows) - Len(SelectSeq(rows, UnparseableRow))

\* the same without the count: the rows that cannot be parsed are dropped
\* and the other rows of the page are still parsed
C24_UnparseableRowsDropped ==
    (pc = "ParseOut" /\ history_html # None /\ history_html[1].table) =>
        LET rows == history_html[1].rows
        IN latest_ts = None
              => Len(flight_records) = Len(rows) - Len(SelectSeq(rows, UnparseableRow))

\* the rows of the page that have the minimum number of cells and a
\* departure time that resolves and is newer than the latest known one
NewRow(row) ==
    /\ row.ncells >= expected_min_cells
    /\ parse_fr24_datetime(row.date, row.atd, hist.current_year) # None
    /\ latest_ts # None =>
          parse_fr24_datetime(row.date, row.atd, hist.current_year)[1] > latest_ts[1]

\* the k-th record is made from the k-th of the rows: its departure is the
\* row's, and a scheduled time, a landing time or a flight time is that of
\* the row, or none when the row's text does not parse
RecordOfRow(rec, row) ==
    /\ rec.flight_number = row.flight
    /\ rec.actual_departure
          = parse_fr24_datetime(row.date, row.atd, hist.current_year)
    /\ rec.scheduled_arrival
          = IF row.sta \in DOMAIN TimeTable
            THEN Some(Timestamp(hist.current_year, MonthTable[row.date[2]],
                                DayTable[row.date[1]], TimeTable[row.sta]))
            ELSE None
    /\ rec.flight_time
          = IF row.flight_time \in DOMAIN FlightTimeTable
            THEN Some(FlightTimeTable[row.flight_time]) ELSE None

\* C27: extract_flight_history returns one record for each row that has at
\* least expected_min_cells cells and a departure time that resolves and is
\* newer than the latest known departure (any that resolves when there is
\* none), in the order of the page, and no other record; a scheduled or
\* landing time or a flight time that does not parse is none in the record.
C27_OneEventPerNewRow ==
    (pc = "ParseOut" /\ history_html # None /\ history_html[1].table) =>
        LET new_rows == SelectSeq(history_html[1].rows, NewRow)
        IN /\ Len(flight_records) = Len(new_rows)
           /\ \A k \in 1..Len(flight_records) :
                 Len(new_rows[k].date) = 2
                    => RecordOfRow(flight_records[k], new_rows[k])

\* the same for the pages without a flight time beyond the range of
\* timedelta
C27_ExceptHugeFlightTime ==
    ( /\ pc = "ParseOut" /\ history_html # None /\ history_html[1].table
      /\ \A k \in 1..Len(history_html[1].rows) :
            history_html[1].rows[k].flight_time \notin HugeFlightTimes ) =>
        LET new_rows == SelectSeq(history_html[1].rows, NewRow)
        IN /\ Len(flight_records) = Len(new_rows)
           /\ \A k \in 1..Len(flight_records) :
                 Len(new_rows[k].date) = 2
                    => RecordOfRow(flight_records[k], new_rows[k])

\* a row whose scheduled arrival, landing time and flight time do not parse
\* gave a record without them
C27_SecondaryFieldsNone ==
    /\ pc = "ParseOut"
    /\ history_html # None
    /\ history_html[1].rows = <<RowBadTimes>>
    /\ Len(flight_records) = 1
    /\ flight_records[1].scheduled_arrival = None
    /\ flight_records[1].actual_arrival = None
    /\ flight_records[1].flight_time = None

(***************************************************************************)
(* Specification SpecBatch: save_flight_history_to_db applied once to a    *)
(* batch of at most MaxRecords records, sent in pages of page_size, with a *)
(* failure at any page or at the commit.                                   *)
(***************************************************************************)
MaxRecords == 3

\* records of N1 as the parser gives them; two of them have the same key
BatchRecords ==
    { ParseRow(row, "N1", None, 2025)[1] :
        row \in { RowA, RowAEnroute, RowB, RowLastYear } }

StoredBefore ==
    SUBSET { ParseRow(row, "N1", None, 2025)[1] : row \in { RowAEnroute, RowB } }

InitBatch ==
    /\ progress_file = None
    /\ pc = "BatchIn"
    /\ runs = 0
    /\ config = DefaultConfig
    /\ logged_in = FALSE
    /\ start_after = None
    /\ found_start_type = TRUE
    /\ found_start_reg = TRUE
    /\ connection \in {"open", "closed", "None"}
    /\ type_index = 1
    /\ extracted_aircraft = <<>>
    /\ aircraft_tuples_found = <<>>
    /\ i = 1
    /\ latest_ts = None
    /\ history_html = None
    /\ flight_records \in SeqsUpTo(BatchRecords, MaxRecords) \ {<<>>}
    /\ processed = 0
    /\ aircraft = <<>>
    /\ movements \in StoredBefore
    /\ hist = [before |-> {}, fail_at |-> 0]

\* processed = save_flight_history_to_db(connection, flight_records)
SaveBatchStep ==
    /\ pc = "BatchIn"
    /\ \E fail_at \in 0..(NumPages(flight_records) + 1) :
          LET r == SaveInPages(movements, connection, flight_records, fail_at)
          IN /\ movements' = r.table
             /\ processed' = r.ret
             /\ hist' = [before |-> movements, fail_at |-> fail_at]
    /\ pc' = "BatchOut"
    /\ UNCHANGED <<progress_file, runs, config, logged_in, start_after,
                   found_start_type, found_start_reg, connection, type_index,
                   extracted_aircraft, aircraft_tuples_found, i, latest_ts,
                   history_html, flight_records, aircraft>>

NextBatchSave == SaveBatchStep

SpecBatch == InitBatch /\ [][NextBatchSave]_vars

\* the insert failed: a statement or the commit raised, or there was no
\* open connection
BatchFailed == hist.fail_at # 0 \/ connection # "open"

\* C35: save_flight_history_to_db stores a batch all or nothing.  When the
\* insert fails, the table movements is as it was before the call, whatever
\* the number of records and pages; when it goes through, the table holds
\* what it held before and, for every record of the batch whose key was not
\* stored, a record of the batch with that key, and nothing else.
C35_BatchAllOrNothing ==
    pc = "BatchOut" =>
        /\ BatchFailed => movements = hist.before
        /\ ~BatchFailed =>
              /\ hist.before \subseteq movements
              /\ \A k \in 1..Len(flight_records) :
                    \E m \in movements : SameTriple(m, flight_records[k])
              /\ \A m \in movements \ hist.before :
                    /\ \E k \in 1..Len(flight_records) : m = flight_records[k]
                    /\ \A b \in hist.before : ~SameTriple(m, b)

\* the statement of the second page raised after a first page with a record
\* whose key was not stored: the table is as before
C35_Witness ==
    /\ pc = "BatchOut"
    /\ connection = "open"
    /\ hist.fail_at = 2
    /\ Len(flight_records) > page_size
    /\ \A b \in hist.before : ~SameTriple(b, flight_records[1])
    /\ movements = hist.before

(***************************************************************************)
(* Specification SpecEntity: save_registrations_to_db applied again and    *)
(* again to lists of at most MaxBatch tuples.                              *)
(***************************************************************************)
EntityTuples ==
    { <<reg, type, op>> : reg \in {"N1", "N2"}, type \in {"", "A332", "A333"},
                          op \in {None, Some("Acme"), Some("Beta")} }

InitEntity ==
    /\ progress_file = None
    /\ pc = "UpsertIn"
    /\ runs = 0
    /\ config = DefaultConfig
    /\ logged_in = FALSE
    /\ start_after = None
    /\ found_start_type = TRUE
    /\ found_start_reg = TRUE
    /\ connection = "open"
    /\ type_index = 1
    /\ extracted_aircraft = <<>>
    /\ aircraft_tuples_found = <<>>
    /\ i = 1
    /\ latest_ts = None
    /\ history_html = None
    /\ flight_records = <<>>
    /\ processed = 0
    /\ aircraft = <<>>
    /\ movements = {}
    /\ hist = [before |-> <<>>]

\* a listing was parsed into the list to save
ChooseBatch ==
    /\ pc = "UpsertIn"
    /\ extracted_aircraft' \in SeqsUpTo(EntityTuples, MaxBatch)
    /\ connection' \in {"open", "closed"}
    /\ pc' = "UpsertRun"
    /\ UNCHANGED <<progress_file, runs, config, logged_in, start_after, found_start_type,
                   found_start_reg, type_index, aircraft_tuples_found, i,
                   latest_ts, history_html, flight_records, processed,
                   aircraft, movements, hist>>

\* processed_count = save_registrations_to_db(connection, extracted_aircraft)
ApplyUpsert ==
    /\ pc = "UpsertRun"
    /\ \E db_ok \in BOOLEAN :
          LET r == save_registrations_to_db(aircraft, connection,
                                            extracted_aircraft, db_ok)
          IN aircraft' = r.table /\ processed' = r.ret
    /\ hist' = [before |-> aircraft]
    /\ pc' = "UpsertOut"
    /\ UNCHANGED <<progress_file, runs, config, logged_in, start_after, found_start_type,
                   found_start_reg, connection, type_index, extracted_aircraft,
                   aircraft_tuples_found, i, latest_ts, history_html,
                   flight_records, movements>>

\* the next listing
NextBatch ==
    /\ pc = "UpsertOut"
    /\ extracted_aircraft' = <<>>
    /\ processed' = 0
    /\ connection' = "open"
    /\ hist' = [before |-> <<>>]
    /\ pc' = "UpsertIn"
    /\ UNCHANGED <<progress_file, runs, config, logged_in, start_after, found_start_type,
                   found_start_reg, type_index, aircraft_tuples_found, i,
                   latest_ts, history_html, flight_records, aircraft, movements>>

NextEntity == ChooseBatch \/ ApplyUpsert \/ NextBatch

SpecEntity == InitEntity /\ [][NextEntity]_vars

\* the tuples of the list that reached the statement and met a stored row
UpsertedOnStored ==
    { extracted_aircraft[k] : k \in 1..Len(extracted_aircraft) } \cap
    { t \in EntityTuples : t[2] # "" /\ t[1] \in DOMAIN hist.before }

\* C9: a stored operator that is not null is never changed by an upsert,
\* neither to null nor to another name, and a null stored operator is
\* filled by an upsert that carries an operator.
C9_OperatorNeverRegresses ==
    pc = "UpsertOut" =>
        /\ \A reg \in DOMAIN hist.before :
              hist.before[reg].operator # None
                 => /\ reg \in DOMAIN aircraft
                    /\ aircraft[reg].operator = hist.before[reg].operator
        /\ processed > 0 =>
              \A t \in UpsertedOnStored :
                 (hist.before[t[1]].operator = None /\ t[3] # None)
                    => aircraft[t[1]].operator = t[3]

\* an upsert without operator went through on a row whose operator is Acme
C9_Witness ==
    /\ pc = "UpsertOut"
    /\ processed > 0
    /\ \E t \in UpsertedOnStored :
          /\ t[3] = None
          /\ hist.before[t[1]].operator = Some("Acme")
          /\ aircraft[t[1]].operator = Some("Acme")

\* C10 as stated: an upsert that brings, for a stored entity, a type or an
\* operator that differs from the stored one writes the new value.
C10_UpdatesWhateverDiffers ==
    (pc = "UpsertOut" /\ processed > 0) =>
        \A t \in UpsertedOnStored :
           /\ t[2] # hist.before[t[1]].type => aircraft[t[1]].type = t[2]
           /\ (t[3] # None /\ t[3] # hist.before[t[1]].operator)
                 => aircraft[t[1]].operator = t[3]

\* C10 amended: the upsert writes a type that differs from the stored one,
\* writes an operator when the stored operator is null, and leaves a stored
\* operator that is not null as it is when another one is observed.
C10_UpdatesTypeFillsOperator ==
    (pc = "UpsertOut" /\ processed > 0) =>
        \A t \in UpsertedOnStored :
           /\ t[2] # hist.before[t[1]].type => aircraft[t[1]].type = t[2]
           /\ (t[3] # None /\ hist.before[t[1]].operator = None)
                 => aircraft[t[1]].operator = t[3]
           /\ (t[3] # None /\ hist.before[t[1]].operator # None)
                 => aircraft[t[1]].operator = hist.before[t[1]].operator

\* an upsert brought another type and another operator for a row with a
\* known operator: the type is written, the operator is kept
C10_Witness ==
    /\ pc = "UpsertOut"
    /\ processed > 0
    /\ \E t \in UpsertedOnStored :
          /\ t[2] # hist.before[t[1]].type
          /\ hist.before[t[1]].operator = Some("Acme")
          /\ t[3] = Some("Beta")
          /\ aircraft[t[1]].type = t[2]
          /\ aircraft[t[1]].operator = Some("Acme")

\* the tuples of the list that reached the statement and met no stored row
UpsertedOnNew ==
    { extracted_aircraft[k] : k \in 1..Len(extracted_aircraft) } \cap
    { t \in EntityTuples : t[2] # "" /\ t[1] \notin DOMAIN hist.before }

\* C11: in the upsert of the aircraft table a registration that is not
\* stored yet is inserted with the observed type and operator; on a conflict
\* the stored type is the observed type afterwards; and when the observed
\* type equals the stored one and the stored operator is known, the stored
\* row is left exactly as it was.
C11_UpsertInsertsOrRetypes ==
    (pc = "UpsertOut" /\ processed > 0) =>
        /\ \A t \in UpsertedOnNew :
              /\ t[1] \in DOMAIN aircraft
              /\ aircraft[t[1]] = NewAircraftRow(t[2], t[3])
        /\ \A t \in UpsertedOnStored :
              /\ aircraft[t[1]].type = t[2]
              /\ (t[2] = hist.before[t[1]].type
                    /\ hist.before[t[1]].operator # None)
                    => aircraft[t[1]] = hist.before[t[1]]
        /\ DOMAIN aircraft =
              DOMAIN hist.before \cup { t[1] : t \in UpsertedOnNew }

\* one list inserted a new registration and met a stored one with the same
\* type and a known operator, another operator observed: the row is as before
C11_Witness ==
    /\ pc = "UpsertOut"
    /\ processed > 0
    /\ UpsertedOnNew # {}
    /\ \E t \in UpsertedOnStored :
          /\ t[2] = hist.before[t[1]].type
          /\ hist.before[t[1]].operator = Some("Acme")
          /\ t[3] = Some("Beta")
          /\ aircraft[t[1]] = hist.before[t[1]]

(***************************************************************************)
(* Specification SpecListing: extract_registrations applied to the listing *)
(* tables of at most MaxListing data rows, with or without a header row.   *)
(***************************************************************************)
MaxListing == 3

HeaderRow ==
    [ th |-> TRUE, ncells |-> 0, type_text |-> "", reg_link |-> None,
      airline_link |-> None, airline_text |-> "" ]

\* rows of four td cells: the type cell filled, empty or a placeholder, the
\* registration cell with an anchor, with a blank anchor or without one
ListingDataRows ==
    { [ th |-> FALSE, ncells |-> 4, type_text |-> type_text,
        reg_link |-> reg_link, airline_link |-> None, airline_text |-> "Acme" ] :
        type_text \in {"A332", "-", ""},
        reg_link \in {None, Some(" "), Some("N1"), Some("n1"), Some("N2"),
                      Some("N3")} }

\* rows of one aircraft listed more than once: its registration and type in
\* either case, its airline as a text, a name or a placeholder
DuplicateRows ==
    { [ th |-> FALSE, ncells |-> 4, type_text |-> type_text,
        reg_link |-> Some(reg_text), airline_link |-> None,
        airline_text |-> airline_text ] :
        type_text \in {"a332", "A333"},
        reg_text \in {"N1", "n1"},
        airline_text \in {"Acme", "Beta", "-"} }

ListingTables ==
    { [table |-> TRUE, rows |-> header \o rows] :
        header \in { <<>>, <<HeaderRow>> },
        rows \in SeqsUpTo(ListingDataRows, MaxListing)
                   \cup SeqsUpTo(DuplicateRows, MaxListing) }

InitListing ==
    /\ progress_file = None
    /\ pc = "ListingIn"
    /\ runs = 0
    /\ config = DefaultConfig
    /\ logged_in = FALSE
    /\ start_after = None
    /\ found_start_type = TRUE
    /\ found_start_reg = TRUE
    /\ connection = "None"
    /\ type_index = 1
    /\ extracted_aircraft = <<>>
    /\ aircraft_tuples_found = <<>>
    /\ i = 1
    /\ latest_ts = None
    /\ history_html = None
    /\ flight_records = <<>>
    /\ processed = 0
    /\ aircraft = <<>>
    /\ movements = {}
    /\ hist \in { [page |-> page, skipped_rows |-> 0] : page \in ListingTables }

\* extracted_aircraft = extract_registrations(html_content), with the
\* counter the function logs
ExtractListingStep ==
    /\ pc = "ListingIn"
    /\ extracted_aircraft' = extract_registrations(Some(hist.page))
    /\ hist' = [hist EXCEPT
                   !.skipped_rows = ExtractListing(Some(hist.page)).skipped_rows]
    /\ pc' = "ListingOut"
    /\ UNCHANGED <<progress_file, runs, config, logged_in, start_after, found_start_type,
                   found_start_reg, connection, type_index,
                   aircraft_tuples_found, i, latest_ts, history_html,
                   flight_records, processed, aircraft, movements>>

NextListing == ExtractListingStep

SpecListing == InitListing /\ [][NextListing]_vars

\* the data rows of the page: its rows without the header row
DataRows == SelectSeq(hist.page.rows, LAMBDA row : ~row.th)

\* the registration of a row as the parser normalises it, "" without text
RowIdentifier(row) ==
    IF row.reg_link = None THEN "" ELSE UpperTable[row.reg_link[1]]

\* a row without anchor text in its registration cell, or with an empty or
\* placeholder type
RowWithoutEntity(row) ==
    \/ RowIdentifier(row) = ""
    \/ UpperTable[row.type_text] \in {"", "-"}

\* the rows that carry a registration carry pairwise distinct ones
DistinctIdentifiers ==
    \A a, b \in 1..Len(DataRows) :
       (a # b /\ RowIdentifier(DataRows[a]) # "")
          => RowIdentifier(DataRows[a]) # RowIdentifier(DataRows[b])

\* C12: for a listing of n data rows with distinct registrations, k of them
\* without anchor text in the registration cell or with an empty or
\* placeholder type, extract_registrations returns n - k tuples and counts
\* k skipped rows.
C12_SkipsExactlyTheBadRows ==
    (pc = "ListingOut" /\ DistinctIdentifiers) =>
        LET n == Len(DataRows)
            k == Len(SelectSeq(DataRows, RowWithoutEntity))
        IN /\ Len(extracted_aircraft) = n - k
           /\ hist.skipped_rows = k

\* the same for the tables where the parser steps over the header row or
\* meets none
C12_ExceptLoneHeader ==
    ( /\ pc = "ListingOut"
      /\ DistinctIdentifiers
      /\ hist.page.rows # <<HeaderRow>> ) =>
        LET n == Len(DataRows)
            k == Len(SelectSeq(DataRows, RowWithoutEntity))
        IN /\ Len(extracted_aircraft) = n - k
           /\ hist.skipped_rows = k

\* the data rows the parser makes an entry of
EntryRows == SelectSeq(DataRows, LAMBDA row : ~RowWithoutEntity(row))

\* the entry the parser makes of a row: registration and type in upper
\* case, the airline or none for a placeholder
EntryOfRow(row) ==
    << UpperTable[row.reg_link[1]], UpperTable[row.type_text],
       IF row.airline_text \in {"", "-"} THEN None ELSE Some(row.airline_text) >>

\* C28: extract_registrations returns no two tuples with the same
\* registration, registrations and types are in upper case, and of the rows
\* that give a tuple for one registration (their texts may differ in case)
\* the last one gives the type and the airline of the tuple.
C28_LastRowWins ==
    pc = "ListingOut" =>
        /\ \A a, b \in 1..Len(extracted_aircraft) :
              a # b => extracted_aircraft[a][1] # extracted_aircraft[b][1]
        /\ \A a \in 1..Len(extracted_aircraft) :
              /\ extracted_aircraft[a][1] \notin {"n1"}
              /\ extracted_aircraft[a][2] \notin {"a332"}
              /\ \E k \in 1..Len(EntryRows) :
                    /\ extracted_aircraft[a] = EntryOfRow(EntryRows[k])
                    /\ \A later \in (k + 1)..Len(EntryRows) :
                          EntryOfRow(EntryRows[later])[1] # extracted_aircraft[a][1]
        /\ \A k \in 1..Len(EntryRows) :
              \E a \in 1..Len(extracted_aircraft) :
                 extracted_aircraft[a][1] = EntryOfRow(EntryRows[k])[1]

\* a registration listed as N1 with type a332 for Acme and then as n1 with
\* type A333 for Beta gives the one tuple N1, A333, Beta
C28_Witness ==
    /\ pc = "ListingOut"
    /\ Len(EntryRows) = 2
    /\ EntryRows[1].reg_link = Some("N1") /\ EntryRows[1].type_text = "a332"
    /\ EntryRows[1].airline_text = "Acme"
    /\ EntryRows[2].reg_link = Some("n1") /\ EntryRows[2].type_text = "A333"
    /\ EntryRows[2].airline_text = "Beta"
    /\ extracted_aircraft = << <<"N1", "A333", Some("Beta")>> >>

(***************************************************************************)
(* Specification SpecLogin: one run with the login in its steps, under     *)
(* every configuration of the credentials, with and without types, from    *)
(* every progress file.                                                    *)
(***************************************************************************)
LoginConfigs ==
    { [ types |-> types, username |-> username, password |-> password ] :
        types \in { <<>>, AIRCRAFT_TYPES_TO_SCRAPE },
        username \in BOOLEAN, password \in BOOLEAN }

LoginProgressFiles ==
    { clear_progress, write_progress("A330", "N2"), write_progress("B747", "N3") }

InitLogin ==
    /\ progress_file \in LoginProgressFiles
    /\ pc = "Idle"
    /\ runs = MaxRuns - 1
    /\ config \in LoginConfigs
    /\ NoProcess
    /\ aircraft = <<>>
    /\ movements = {}
    /\ hist = NewRunHist(None)

NextLogin ==
    \/ StartRun
    \/ LoginStart
    \/ PrimingRequest
    \/ CredentialedRequest
    \/ LoginSleep
    \/ Connect
    \/ DbDrop
    \/ NextType
    \/ CheckDbType
    \/ FetchListing
    \/ SaveRegistrations
    \/ ListSleep
    \/ NextReg
    \/ CheckDbReg
    \/ ResolveWatermark
    \/ FetchHistory
    \/ ParseHistory
    \/ SaveFlightHistory
    \/ WriteProgress
    \/ Sleep
    \/ Finish
    \/ Interrupt

SpecLogin == InitLogin /\ [][NextLogin]_vars

LoginPcs == { "Login", "Priming", "Credentialed", "LoginSleep" }

\* a step that issues the priming or the credentialed request
RequestStep ==
    hist'.priming + hist'.credentialed > hist.priming + hist.credentialed

\* C14: whatever the login gives (authenticated, rejected, unreachable),
\* the script goes on towards the processing of the types: a request of the
\* login, failed or not, is followed by the next step of the login or by the
\* connection to the database, never by the end of the run, and no step of
\* the login changes the progress file.
C14_LoginFailureNotFatal ==
    [][ /\ pc \in LoginPcs => progress_file' = progress_file
        /\ RequestStep => pc' \in { "Credentialed", "LoginSleep", "Connect" }
        /\ (RequestStep /\ hist'.auth # "none")
              => pc' = IF hist'.auth = "authenticated" THEN "LoginSleep"
                                                       ELSE "Connect" ]_vars

\* after a rejected login the run is fetching a history page, the progress
\* file as it was found
C14_Witness ==
    /\ hist.auth = "rejected"
    /\ pc = "HistFetch"
    /\ progress_file = write_progress("A330", "N2")
    /\ read_progress(progress_file) = start_after

\* C15: without both credentials no priming request and no credentialed
\* request is issued in the run, the login is not entered, and the run is
\* not logged in.
C15_NoCredentialsNoLoginRequest ==
    ~(config.username /\ config.password) =>
        /\ hist.priming = 0
        /\ hist.credentialed = 0
        /\ pc \notin { "Priming", "Credentialed", "LoginSleep" }
        /\ ~logged_in

\* with a user name and no password the run is fetching a history page and
\* has issued no request of the login
C15_Witness ==
    /\ config.username
    /\ ~config.password
    /\ pc = "HistFetch"
    /\ hist.priming = 0
    /\ hist.credentialed = 0

\* C16: a run issues at most one priming request and at most one
\* credentialed request, and the credentialed one only after the priming
\* request succeeded.
C16_OneLoginAttempt ==
    /\ hist.priming <= 1
    /\ hist.credentialed <= 1
    /\ hist.credentialed > 0 => (hist.priming = 1 /\ hist.priming_ok)
    /\ hist.auth = "unreachable" => pc \notin { "Priming", "Credentialed" }

\* a run went to its end after a priming request that failed: one priming
\* request, no credentialed request
C16_Witness ==
    /\ pc = "Done"
    /\ hist.auth = "unreachable"
    /\ hist.priming = 1
    /\ ~hist.priming_ok
    /\ hist.credentialed = 0

SuccessPayloads ==
    { "json_success_true", "json_status_success", "json_success_features_null" }

\* C30: once the POST is answered, the login is authenticated exactly when
\* the response is JSON with a success body; a JSON failure body, a body
\* that is not valid JSON and a response that is not JSON give rejected, a
\* network error gives unreachable.
C30_AuthenticatedIffSuccessPayload ==
    hist.response # "none" =>
        /\ hist.auth = "authenticated" <=> hist.response \in SuccessPayloads
        /\ hist.response \in { "json_failure", "json_invalid", "not_json" }
              => hist.auth = "rejected"
        /\ hist.response = "network_error" => hist.auth = "unreachable"

\* the same for the success bodies whose "features" is an object or absent
C30_ExceptFeaturesNull ==
    (hist.response # "none" /\ hist.response # "json_success_features_null") =>
        /\ hist.auth = "authenticated" <=> hist.response \in SuccessPayloads
        /\ hist.response \in { "json_failure", "json_invalid", "not_json" }
              => hist.auth = "rejected"
        /\ hist.response = "network_error" => hist.auth = "unreachable"

(***************************************************************************)
(* Specification SpecProgress: write_progress, clear_progress and the read *)
(* of lines 775-777 in any order, at most MaxWrites writes.                *)
(***************************************************************************)
MaxWrites == 3

\* registrations as the listing may give them, one of them with a colon
ProgressRegs == { "N1", "N2", "N1:X" }

\* the file at the start: absent, empty, or a line without colon
ProgressFilesAtStart == { None, Some(<<"">>), Some(<<"A330">>) }

InitProgress ==
    /\ progress_file \in ProgressFilesAtStart
    /\ pc = "File"
    /\ runs = 0
    /\ config = DefaultConfig
    /\ NoProcess
    /\ aircraft = <<>>
    /\ movements = {}
    /\ hist = [last |-> None, writes |-> 0]

ProgressFrame ==
    UNCHANGED <<runs, config, logged_in, connection, type_index,
                extracted_aircraft, aircraft_tuples_found, i, latest_ts,
                history_html, flight_records, processed, aircraft, movements>>

\* write_progress(c, e)
WriteStep ==
    /\ hist.writes < MaxWrites
    /\ \E k \in 1..Len(config.types), e \in ProgressRegs :
          /\ progress_file' = write_progress(config.types[k], e)
          /\ hist' = [last |-> Some(<<config.types[k], e>>),
                      writes |-> hist.writes + 1]
    /\ pc' = "File"
    /\ UNCHANGED <<start_after, found_start_type, found_start_reg>>
    /\ ProgressFrame

\* clear_progress()
ClearStep ==
    /\ progress_file' = clear_progress
    /\ hist' = [hist EXCEPT !.last = None]
    /\ pc' = "File"
    /\ UNCHANGED <<start_after, found_start_type, found_start_reg>>
    /\ ProgressFrame

\* lines 775-777: read_progress() and the two flags of the resume
ReadStep ==
    /\ start_after' = read_progress(progress_file)
    /\ found_start_type' = (start_after' = None)
    /\ found_start_reg' = (start_after' = None)
    /\ pc' = "Read"
    /\ UNCHANGED <<progress_file, hist>>
    /\ ProgressFrame

NextProgress == WriteStep \/ ClearStep \/ ReadStep

SpecProgress == InitProgress /\ [][NextProgress]_vars

\* C20: read_progress() after write_progress(c, e) returns (c, e) for
\* every type c and registration e, the last write counts, and it returns
\* (None, None) when the file is absent or after clear_progress(), in which
\* case the run starts at the first type and the first registration.
C20_ProgressRoundTrip ==
    pc = "Read" =>
        /\ hist.last # None => start_after = hist.last[1]
        /\ hist.last = None
              => (start_after = None /\ found_start_type /\ found_start_reg)

\* a second write was read back, its registration with a colon
C20_Witness ==
    /\ pc = "Read"
    /\ hist.writes = 2
    /\ hist.last = Some(<<"B747", "N1:X">>)
    /\ start_after = <<"B747", "N1:X">>
    /\ ~found_start_type

(***************************************************************************)
(* Specification SpecDetails: update_aircraft_details applied once to a    *)
(* table that holds N1 and N2, with every choice of its arguments.         *)
(***************************************************************************)
\* the rows N1 may have before the call: as inserted, or updated before
StoredDetailRows ==
    { [ NewAircraftRow("A332", Some("Acme")) EXCEPT
          !.aircraft_details = d, !.operator_iata_code = c,
          !.operator_icao_code = c, !.last_scraped = t ] :
        d \in {None, Some("Airbus A330-200")},
        c \in {None, Some("ZZ")},
        t \in {None, Some(0)} }

DetailTables ==
    { ("N1" :> row) @@ ("N2" :> NewAircraftRow("A333", None)) :
        row \in StoredDetailRows }

DetailArgs ==
    [ registration : {None, Some(""), Some("N1"), Some("N3")},
      details : {None, Some(""), Some("Airbus A330-243")},
      iata : {None, Some("AC")},
      icao : {None, Some(""), Some("ACA")} ]

InitDetails ==
    /\ progress_file = None
    /\ pc = "DetailsIn"
    /\ runs = 0
    /\ config = DefaultConfig
    /\ logged_in = FALSE
    /\ start_after = None
    /\ found_start_type = TRUE
    /\ found_start_reg = TRUE
    /\ connection \in {"open", "closed", "None"}
    /\ type_index = 1
    /\ extracted_aircraft = <<>>
    /\ aircraft_tuples_found = <<>>
    /\ i = 1
    /\ latest_ts = None
    /\ history_html = None
    /\ flight_records = <<>>
    /\ processed = 0
    /\ aircraft \in DetailTables
    /\ movements = {}
    /\ hist = [before |-> <<>>, args |-> <<>>, committed |-> FALSE]

\* update_aircraft_details(conn, registration, details, iata, icao) at the
\* time 1 of the database
UpdateDetailsStep ==
    /\ pc = "DetailsIn"
    /\ \E args \in DetailArgs, db_ok \in BOOLEAN :
          /\ aircraft' = update_aircraft_details(aircraft, connection,
                              args.registration, args.details, args.iata,
                              args.icao, 1, db_ok)
          /\ hist' = [before |-> aircraft, args |-> args,
                      committed |-> connection = "open" /\ db_ok]
    /\ pc' = "DetailsOut"
    /\ UNCHANGED <<progress_file, runs, config, logged_in, start_after,
                   found_start_type, found_start_reg, connection, type_index,
                   extracted_aircraft, aircraft_tuples_found, i, latest_ts,
                   history_html, flight_records, processed, movements>>

NextDetails == UpdateDetailsStep

SpecDetails == InitDetails /\ [][NextDetails]_vars

\* an argument that is given: neither None nor the empty text
Provided(arg) == arg \notin {None, Some("")}

\* C29: update_aircraft_details writes, into the row of its registration,
\* the details, the IATA code and the ICAO code that are given, and leaves
\* each of them that is not given, the type and the operator as they were;
\* it sets last_scraped to the time of the statement when at least one of
\* the three is given and the statement commits; with none given the table
\* stays as it was; no row is added and no other row is changed.
C29_UpdateWritesWhatIsProvided ==
    pc = "DetailsOut" =>
        LET a == hist.args
            any == Provided(a.details) \/ Provided(a.iata) \/ Provided(a.icao)
        IN /\ DOMAIN aircraft = DOMAIN hist.before
           /\ \A reg \in DOMAIN aircraft :
                 a.registration # Some(reg) => aircraft[reg] = hist.before[reg]
           /\ ~any => aircraft = hist.before
           /\ \A reg \in DOMAIN aircraft :
                 /\ aircraft[reg].type = hist.before[reg].type
                 /\ aircraft[reg].operator = hist.before[reg].operator
                 /\ ~Provided(a.details) =>
                       aircraft[reg].aircraft_details = hist.before[reg].aircraft_details
                 /\ ~Provided(a.iata) =>
                       aircraft[reg].operator_iata_code = hist.before[reg].operator_iata_code
                 /\ ~Provided(a.icao) =>
                       aircraft[reg].operator_icao_code = hist.before[reg].operator_icao_code
           /\ (any /\ hist.committed /\ a.registration = Some("N1")) =>
                 /\ aircraft["N1"].last_scraped = Some(1)
                 /\ Provided(a.details) => aircraft["N1"].aircraft_details = a.details
                 /\ Provided(a.iata) => aircraft["N1"].operator_iata_code = a.iata
                 /\ Provided(a.icao) => aircraft["N1"].operator_icao_code = a.icao

\* an update with new details and no codes, on a row that had details and
\* codes: the details are replaced, the codes are kept
C29_Witness ==
    /\ pc = "DetailsOut"
    /\ hist.committed
    /\ hist.args.registration = Some("N1")
    /\ hist.args.details = Some("Airbus A330-243")
    /\ hist.args.iata = None /\ hist.args.icao = Some("")
    /\ hist.before["N1"].aircraft_details = Some("Airbus A330-200")
    /\ hist.before["N1"].operator_iata_code = Some("ZZ")
    /\ aircraft["N1"].aircraft_details = Some("Airbus A330-243")
    /\ aircraft["N1"].operator_iata_code = Some("ZZ")
    /\ aircraft["N1"].operator_icao_code = Some("ZZ")
    /\ aircraft["N1"].last_scraped = Some(1)

\* C23: every two consecutive requests of a run (the GET and the POST of
\* the login, the fetch of a listing page, the fetch of a history page) are
\* separated by the delay of FETCH_DELAY_SECONDS: no request is issued while
\* the delay after the request before it is still due.
C23_RequestsSeparatedByDelay == ~hist.undelayed

====
